---- MODULE Spec2Model ----
(***************************************************************************)
(* Model of aws-k8s-tester: the Fargate-profile polling helper (Poll), the *)
(* Fargate and ALB add-on testers (Create / Delete), and the environment-  *)
(* variable parsing of eksconfig (UpdateFromEnvs / parseEnvs).             *)
(***************************************************************************)
EXTENDS Integers, Sequences, FiniteSets, TLC

(***************************************************************************)
(* Bounds of the model.                                                    *)
(***************************************************************************)
\* number of DescribeFargateProfile calls within the horizon of one Poll
MaxDescribes == 3
\* the same, for the specification with fairness
MaxDescribesFair == 2

\* calls of NewDefault the model follows
MaxConfigs == 2

\* number of DescribeFargateProfile calls within the horizon of the Poll that
\* createProfile starts
MaxProfileDescribes == 2

\* number of ASGs of the configuration createSSM runs on
MaxASGs == 2
\* items one awscfn.Poll sends before its last one
MaxPollItems == 2

(***************************************************************************)
(* Part I.  fargate.Poll                                                   *)
(***************************************************************************)

VARIABLES
    horizon,        \* timer ticks of the poll interval the model follows
    desiredStatus,  \* Poll parameter
    wait,           \* Poll parameter
    initialWait,    \* Poll parameter
    ctxErr,         \* ctx.Err(): "nil" until the context is cancelled or expires
    stopped,        \* stopc has been closed
    pc,             \* position of Poll's goroutine
    waitDur,        \* local waitDur
    first,          \* local first
    pending,        \* the item the goroutine is about to send
    next,           \* what follows the send: "close", "loop" or "first"
    ch,             \* buffered channel content
    closed,         \* ch has been closed
    \* ---- history (observations, never read by Poll)
    ndesc,          \* DescribeFargateProfile calls so far
    lastResp,       \* response of the last describe call
    lastWait,       \* duration of the timer that preceded the last describe
    lastSent,       \* last item sent on ch
    closes,         \* close(ch) executions
    sentAfterClose, \* an item was sent on ch after its close
    desiredSeen,    \* a describe observed the desired state
    nonTerm,        \* describes that returned a non-terminal status
    initialSleeps,  \* times the initialWait sleep was started
    sleptFor        \* duration of the completed initialWait sleep

pollVars == <<horizon, desiredStatus, wait, initialWait, ctxErr, stopped, pc, waitDur,
              first, pending, next, ch, closed, ndesc, lastResp, lastWait,
              lastSent, closes, sentAfterClose, desiredSeen, nonTerm,
              initialSleeps, sleptFor>>

VARIABLES
    ts,             \* the tester the behaviour is about: "fargate" or "alb"
    Created,        \* EKSConfig.AddOnFargate.Created / AddOnALB2048.Created
    op,             \* the running call: "idle", "create" or "delete"
    step,           \* index of the next step of the running call
    errs,           \* Delete's local errs
    ret,            \* what the last completed call returned
    resources,      \* the resources of the add-on that exist
    \* ---- history
    calls,          \* Kubernetes / AWS steps invoked by the current (last) call
    failed,         \* steps of the current (last) call that returned an error
    lastOp,         \* the current (last) call
    createdBefore,  \* Created when the current (last) call began
    made,           \* resources the steps of the last Create that ran have created
    createFailed,   \* the last Create that ran returned an error
    stepsDone       \* every step of a Create has succeeded since Created was cleared

testerVars ==
    <<ts, Created, op, step, errs, ret, resources, calls, failed, lastOp, createdBefore,
      made, createFailed, stepsDone>>

VARIABLES
    env,            \* the process environment: variable name -> value
    cfg,            \* the eksconfig.Config: field -> value
    updErr,         \* what the last UpdateFromEnvs returned
    \* ---- history
    called,         \* UpdateFromEnvs has been called
    cfg0            \* cfg when the last UpdateFromEnvs began

envVars == <<env, cfg, updErr, called, cfg0>>

VARIABLES
    config,         \* the Config handed to ValidateAndSetDefaults
    valErr,         \* what the last ValidateAndSetDefaults returned
    \* ---- history
    validated,      \* ValidateAndSetDefaults has been called
    config0         \* config when the last ValidateAndSetDefaults began

validateVars == <<config, valErr, validated, config0>>

VARIABLES
    DefaultConfig,  \* the package variable: value fields and pointers
    objects,        \* the heap of sub-objects: address -> fields
    groupMaps,      \* the heap of ASGs / MNGs maps: address -> content
    returned,       \* the configs NewDefault has returned
    \* ---- history
    lastCall        \* the last operation and the returned config it acted on

defaultVars == <<DefaultConfig, objects, groupMaps, returned, lastCall>>

VARIABLES
    profPc,         \* position of createProfile: "start", "range" or "done"
    profRet,        \* what createProfile returned
    \* ---- history
    activeBefore    \* a describe had returned ACTIVE when createProfile returned

profileVars == <<profPc, profRet, activeBefore>>

VARIABLES
    ASGs,           \* ts.cfg.ASGs
    ssmPc,          \* position of createSSM
    todo,           \* the ASGs the running range loop has not visited yet
    cur,            \* asgName of the running iteration of createSSMDocument
    st,             \* local st of createSSMDocument
    ssmRet,         \* what createSSM returned
    \* ---- history
    stacks,         \* status of the SSM-document stack of each ASG
    items,          \* items received from the running awscfn.Poll
    docErr,         \* createSSMDocument returned an error
    sent,           \* the ASGs a SendCommand was issued for, in order
    requested,      \* DocumentName of the SendCommand issued for each ASG
    answered        \* Command.DocumentName of the answer to it

ssmVars == <<ASGs, ssmPc, todo, cur, st, ssmRet, stacks, items, docErr, sent,
             requested, answered>>

\* the variables a step of each part leaves alone
nonPollVars == <<testerVars, envVars, validateVars, defaultVars, profileVars, ssmVars>>
nonTesterVars == <<pollVars, envVars, validateVars, defaultVars, profileVars, ssmVars>>
nonEnvVars == <<pollVars, testerVars, validateVars, defaultVars, profileVars, ssmVars>>
nonValidateVars == <<pollVars, testerVars, envVars, defaultVars, profileVars, ssmVars>>
nonDefaultVars == <<pollVars, testerVars, envVars, validateVars, profileVars, ssmVars>>
nonSSMVars == <<pollVars, testerVars, envVars, validateVars, defaultVars, profileVars>>

vars == <<pollVars, testerVars, envVars, validateVars, defaultVars, profileVars, ssmVars>>

\* make(chan FargateProfileStatus, 10)
ChanCap == 10

\* the intervals createProfile and deleteProfile pass (seconds)
PollInitialWait == 10
PollWait == 7

FargateProfileStatusDELETEDORNOTEXIST == "DELETED/NOT-EXIST"

\* eks.FargateProfileStatus* values
ProfileStatuses == {"CREATING", "ACTIVE", "DELETING", "CREATE_FAILED", "DELETE_FAILED"}

DesiredStatuses == {"ACTIVE", FargateProfileStatusDELETEDORNOTEXIST, "CREATE_FAILED"}

\* error values: src tells where the error was made, code is the awserr code
\* ("" for an error that is no awserr.Error), nf whether its text holds
\* " not found "
NilErr == [src |-> "nil", code |-> "", nf |-> FALSE]
CtxError(e) == [src |-> e, code |-> "", nf |-> FALSE]
StopError == [src |-> "wait stopped", code |-> "", nf |-> FALSE]
EmptyResponseError == [src |-> "unexpected empty response", code |-> "", nf |-> FALSE]
StatusError == [src |-> "unexpected fargate status", code |-> "", nf |-> FALSE]
ApiErrors ==
    { [src |-> "api", code |-> "ResourceNotFoundException", nf |-> FALSE],
      [src |-> "api", code |-> "", nf |-> TRUE],
      [src |-> "api", code |-> "AccessDeniedException", nf |-> FALSE] }

\* what one DescribeFargateProfile call can return
NoResp == [err |-> NilErr, profile |-> "none"]
Responses ==
    { [err |-> e, profile |-> "nil"] : e \in ApiErrors }
    \cup { [err |-> NilErr, profile |-> "nil"] }
    \cup { [err |-> NilErr, profile |-> s] : s \in ProfileStatuses }

Item(p, e) == [FargateProfile |-> p, Error |-> e]
NoItem == Item("none", NilErr)

IsProfileDeletedNoCode(err) ==
    /\ err # NilErr
    /\ err.nf

IsProfileDeleted(err) ==
    /\ err # NilErr
    /\ \/ err.code = "ResourceNotFoundException"
       \/ err.nf

\* the arguments of a call of Poll
InitPollArgs ==
    /\ desiredStatus \in DesiredStatuses
    /\ wait \in {0, PollWait}
    /\ initialWait \in {0, PollInitialWait}

\* the goroutine at its start
InitPollState ==
    /\ ctxErr = "nil"
    /\ stopped = FALSE
    /\ pc = "loop"
    /\ waitDur = 0
    /\ first = TRUE
    /\ pending = NoItem
    /\ next = "loop"
    /\ ch = <<>>
    /\ closed = FALSE
    /\ ndesc = 0
    /\ lastResp = NoResp
    /\ lastWait = 0
    /\ lastSent = NoItem
    /\ closes = 0
    /\ sentAfterClose = FALSE
    /\ desiredSeen = FALSE
    /\ nonTerm = 0
    /\ initialSleeps = 0
    /\ sleptFor = 0

InitPoll == horizon = MaxDescribes /\ InitPollArgs /\ InitPollState

InitPollFair == horizon = MaxDescribesFair /\ InitPollArgs /\ InitPollState


\* the frame of an action of Poll's goroutine on the history variables
KeepHistory ==
    UNCHANGED <<ndesc, lastResp, lastWait, lastSent, closes, sentAfterClose,
                desiredSeen, nonTerm, initialSleeps, sleptFor>>

KeepParams ==
    /\ UNCHANGED <<horizon, desiredStatus, wait, initialWait>>
    /\ UNCHANGED nonPollVars

\* ---- the environment of Poll: the context and the stop channel

\* cancel() of the context
CtxCancel ==
    /\ ctxErr = "nil"
    /\ ctxErr' = "context canceled"
    /\ UNCHANGED <<stopped, pc, waitDur, first, pending, next, ch, closed>>
    /\ KeepParams /\ KeepHistory

\* the deadline of the context passes
CtxExpire ==
    /\ ctxErr = "nil"
    /\ ctxErr' = "context deadline exceeded"
    /\ UNCHANGED <<stopped, pc, waitDur, first, pending, next, ch, closed>>
    /\ KeepParams /\ KeepHistory

\* close(stopc)
StopClose ==
    /\ ~stopped
    /\ stopped' = TRUE
    /\ UNCHANGED <<ctxErr, pc, waitDur, first, pending, next, ch, closed>>
    /\ KeepParams /\ KeepHistory

\* the consumer: one receive from the channel
Receive ==
    /\ ch # <<>>
    /\ ch' = Tail(ch)
    /\ UNCHANGED <<ctxErr, stopped, pc, waitDur, first, pending, next, closed>>
    /\ KeepParams /\ KeepHistory

\* ---- Poll's goroutine

\* for ctx.Err() == nil { ... }  and the statements after the loop
LoopCheck ==
    /\ pc = "loop"
    /\ IF ctxErr = "nil"
         THEN /\ pc' = "select"
              /\ UNCHANGED <<pending, next>>
         ELSE /\ pending' = Item("nil", CtxError(ctxErr))
              /\ next' = "close"
              /\ pc' = "send"
    /\ UNCHANGED <<ctxErr, stopped, waitDur, first, ch, closed>>
    /\ KeepParams /\ KeepHistory

\* select: case <-ctx.Done()
SelectCtxDone ==
    /\ pc = "select"
    /\ ctxErr # "nil"
    /\ pending' = Item("nil", CtxError(ctxErr))
    /\ next' = "close"
    /\ pc' = "send"
    /\ UNCHANGED <<ctxErr, stopped, waitDur, first, ch, closed>>
    /\ KeepParams /\ KeepHistory

AfterStopKeepPolling == "loop"

\* case <-stopc: ch <- ...; close(ch); return
AfterStop == "close"

\* select: case <-stopc
SelectStopc ==
    /\ pc = "select"
    /\ stopped
    /\ pending' = Item("nil", StopError)
    /\ next' = AfterStop
    /\ pc' = "send"
    /\ UNCHANGED <<ctxErr, stopped, waitDur, first, ch, closed>>
    /\ KeepParams /\ KeepHistory

NextWaitDurGrowing(d, w) == d + w

\* if waitDur == time.Duration(0) { waitDur = wait }
NextWaitDur(d, w) == IF d = 0 THEN w ELSE d

\* select: case <-time.After(waitDur)
SelectTimer ==
    /\ pc = "select"
    /\ ndesc < horizon
    /\ lastWait' = waitDur
    /\ waitDur' = NextWaitDur(waitDur, wait)
    /\ pc' = "describe"
    /\ UNCHANGED <<ctxErr, stopped, first, pending, next, ch, closed>>
    /\ KeepParams
    /\ UNCHANGED <<ndesc, lastResp, lastSent, closes, sentAfterClose,
                   desiredSeen, nonTerm, initialSleeps, sleptFor>>

ClassifyFailedFirst(desired, r) ==
    IF r.err # NilErr
      THEN IF IsProfileDeleted(r.err)
             THEN IF desired = FargateProfileStatusDELETEDORNOTEXIST
                    THEN [item |-> Item("nil", NilErr), next |-> "close"]
                    ELSE [item |-> Item("nil", r.err), next |-> "close"]
             ELSE [item |-> Item("nil", r.err), next |-> "loop"]
      ELSE IF r.profile = "nil"
             THEN [item |-> Item("nil", EmptyResponseError), next |-> "loop"]
             ELSE IF r.profile \in {"CREATE_FAILED", "DELETE_FAILED"}
                    THEN [item |-> Item(r.profile, StatusError), next |-> "close"]
                    ELSE IF r.profile = desired
                           THEN [item |-> Item(r.profile, NilErr), next |-> "close"]
                           ELSE [item |-> Item(r.profile, NilErr), next |-> "first"]

\* the item Poll sends for a describe response and what follows the send
Classify(desired, r) ==
    IF r.err # NilErr
      THEN IF IsProfileDeleted(r.err)
             THEN IF desired = FargateProfileStatusDELETEDORNOTEXIST
                    THEN [item |-> Item("nil", NilErr), next |-> "close"]
                    ELSE [item |-> Item("nil", r.err), next |-> "close"]
             ELSE [item |-> Item("nil", r.err), next |-> "loop"]
      ELSE IF r.profile = "nil"
             THEN [item |-> Item("nil", EmptyResponseError), next |-> "loop"]
             ELSE IF r.profile = desired
                    THEN [item |-> Item(r.profile, NilErr), next |-> "close"]
                    ELSE IF r.profile \in {"CREATE_FAILED", "DELETE_FAILED"}
                           THEN [item |-> Item(r.profile, StatusError), next |-> "close"]
                           ELSE [item |-> Item(r.profile, NilErr), next |-> "first"]

\* the desired state as a describe response shows it
DesiredObserved(desired, r) ==
    \/ r.err = NilErr /\ r.profile = desired
    \/ IsProfileDeleted(r.err) /\ desired = FargateProfileStatusDELETEDORNOTEXIST

\* a response carrying a profile whose status ends no poll
NonTerminal(desired, r) ==
    /\ r.err = NilErr
    /\ r.profile \in ProfileStatuses \ {desired, "CREATE_FAILED", "DELETE_FAILED"}

\* eksAPI.DescribeFargateProfile(...) and the branch taken on its result
Describe ==
    /\ pc = "describe"
    /\ \E r \in Responses :
         /\ lastResp' = r
         /\ pending' = Classify(desiredStatus, r).item
         /\ next' = Classify(desiredStatus, r).next
         /\ desiredSeen' = (desiredSeen \/ DesiredObserved(desiredStatus, r))
         /\ nonTerm' = IF NonTerminal(desiredStatus, r) THEN nonTerm + 1 ELSE nonTerm
    /\ ndesc' = ndesc + 1
    /\ pc' = "send"
    /\ UNCHANGED <<ctxErr, stopped, waitDur, first, ch, closed>>
    /\ KeepParams
    /\ UNCHANGED <<lastWait, lastSent, closes, sentAfterClose, initialSleeps,
                   sleptFor>>

\* where the goroutine goes after `ch <- item`
AfterSend(n, f) ==
    IF n = "close" THEN "close"
    ELSE IF n = "first" /\ f THEN "initialWait" ELSE "loop"

\* ch <- pending   (blocks while the buffer is full)
Send ==
    /\ pc = "send"
    /\ Len(ch) < ChanCap
    /\ ch' = Append(ch, pending)
    /\ lastSent' = pending
    /\ sentAfterClose' = (sentAfterClose \/ closed)
    /\ pc' = AfterSend(next, first)
    /\ initialSleeps' = IF pc' = "initialWait" THEN initialSleeps + 1 ELSE initialSleeps
    /\ UNCHANGED <<ctxErr, stopped, waitDur, first, pending, next, closed>>
    /\ KeepParams
    /\ UNCHANGED <<ndesc, lastResp, lastWait, closes, desiredSeen, nonTerm,
                   sleptFor>>

AfterCloseKeepPolling == "loop"

\* close(ch); return
AfterClose == "done"

Close ==
    /\ pc = "close"
    /\ closed' = TRUE
    /\ closes' = closes + 1
    /\ pc' = AfterClose
    /\ UNCHANGED <<ctxErr, stopped, waitDur, first, pending, next, ch>>
    /\ KeepParams
    /\ UNCHANGED <<ndesc, lastResp, lastWait, lastSent, sentAfterClose,
                   desiredSeen, nonTerm, initialSleeps, sleptFor>>

\* if first { select { case <-ctx.Done(): ... } }
InitialWaitCtxDone ==
    /\ pc = "initialWait"
    /\ ctxErr # "nil"
    /\ pending' = Item("nil", CtxError(ctxErr))
    /\ next' = "close"
    /\ pc' = "send"
    /\ UNCHANGED <<ctxErr, stopped, waitDur, first, ch, closed>>
    /\ KeepParams /\ KeepHistory

\* if first { select { case <-stopc: ... } }
InitialWaitStopc ==
    /\ pc = "initialWait"
    /\ stopped
    /\ pending' = Item("nil", StopError)
    /\ next' = "close"
    /\ pc' = "send"
    /\ UNCHANGED <<ctxErr, stopped, waitDur, first, ch, closed>>
    /\ KeepParams /\ KeepHistory

\* if first { select { case <-time.After(initialWait): }; first = false }
InitialWaitTimer ==
    /\ pc = "initialWait"
    /\ sleptFor' = initialWait
    /\ first' = FALSE
    /\ pc' = "loop"
    /\ UNCHANGED <<ctxErr, stopped, waitDur, pending, next, ch, closed>>
    /\ KeepParams
    /\ UNCHANGED <<ndesc, lastResp, lastWait, lastSent, closes, sentAfterClose,
                   desiredSeen, nonTerm, initialSleeps>>

PollStep ==
    \/ LoopCheck
    \/ SelectCtxDone
    \/ SelectStopc
    \/ SelectTimer
    \/ Describe
    \/ Send
    \/ Close
    \/ InitialWaitCtxDone
    \/ InitialWaitStopc
    \/ InitialWaitTimer

NextPoll ==
    \/ CtxCancel
    \/ CtxExpire
    \/ StopClose
    \/ Receive
    \/ PollStep

(***************************************************************************)
(* Part II.  The add-on testers: fargate and alb, Create and Delete        *)
(***************************************************************************)

Testers == {"fargate", "alb"}

\* the steps of Create, in the order of the code
CreateSteps(t) ==
    IF t = "fargate"
      THEN <<"createNamespace", "createRole", "createSecret", "createProfile",
             "createPod", "checkPod", "checkNode">>
      ELSE <<"createNamespace", "createALBServiceAccount", "createALBRBACClusterRole",
             "createALBRBACClusterRoleBinding", "createALBDeployment",
             "waitDeploymentALB", "create2048Deployment", "waitDeployment2048",
             "create2048Service", "create2048Ingress">>

\* the steps of Delete, in the order of the code: on an error a step either
\* appends msg to errs ("collect") or makes Delete return the error ("return")
DeleteSteps(t) ==
    IF t = "fargate"
      THEN << [name |-> "deletePod", onErr |-> "collect", msg |-> "Fargate Pod"],
              [name |-> "deleteProfile", onErr |-> "collect", msg |-> "Fargate profile"],
              [name |-> "deleteRole", onErr |-> "collect", msg |-> "IAM Role"],
              [name |-> "deleteSecret", onErr |-> "return", msg |-> ""],
              [name |-> "deleteNamespace", onErr |-> "return", msg |-> ""] >>
      ELSE << [name |-> "delete2048Ingress", onErr |-> "collect", msg |-> "ALB 2048 Ingress"],
              [name |-> "delete2048Service", onErr |-> "collect", msg |-> "ALB 2048 Service"],
              [name |-> "delete2048Deployment", onErr |-> "collect", msg |-> "ALB 2048 Deployment"],
              [name |-> "deleteALBDeployment", onErr |-> "collect",
               msg |-> "ALB Ingress Controller Deployment"],
              [name |-> "deleteALBRBACClusterRoleBinding", onErr |-> "collect",
               msg |-> "ALB Ingress Controller RBAC"],
              [name |-> "deleteALBRBACClusterRole", onErr |-> "collect",
               msg |-> "ALB Ingress Controller RBAC"],
              [name |-> "deleteALBServiceAccount", onErr |-> "collect",
               msg |-> "ALB Ingress Controller ServiceAccount"],
              [name |-> "DeleteELBv2", onErr |-> "collect", msg |-> "ALB"],
              [name |-> "deleteNamespace", onErr |-> "collect", msg |-> "ALB namespace"] >>

\* the resources a creation step creates
Creates(s) ==
    CASE s = "createNamespace" -> {"Namespace"}
      [] s = "createRole" -> {"Role"}
      [] s = "createSecret" -> {"Secret"}
      [] s = "createProfile" -> {"Profile"}
      [] s = "createPod" -> {"Pod"}
      [] s = "createALBServiceAccount" -> {"ALBServiceAccount"}
      [] s = "createALBRBACClusterRole" -> {"ALBRBACClusterRole"}
      [] s = "createALBRBACClusterRoleBinding" -> {"ALBRBACClusterRoleBinding"}
      [] s = "createALBDeployment" -> {"ALBDeployment"}
      [] s = "create2048Deployment" -> {"2048Deployment"}
      [] s = "create2048Service" -> {"2048Service"}
      [] s = "create2048Ingress" -> {"2048Ingress", "ELBv2"}
      [] OTHER -> {}

\* the resource a deletion step deletes
Deletes(s) ==
    CASE s = "deleteNamespace" -> "Namespace"
      [] s = "deleteRole" -> "Role"
      [] s = "deleteSecret" -> "Secret"
      [] s = "deleteProfile" -> "Profile"
      [] s = "deletePod" -> "Pod"
      [] s = "deleteALBServiceAccount" -> "ALBServiceAccount"
      [] s = "deleteALBRBACClusterRole" -> "ALBRBACClusterRole"
      [] s = "deleteALBRBACClusterRoleBinding" -> "ALBRBACClusterRoleBinding"
      [] s = "deleteALBDeployment" -> "ALBDeployment"
      [] s = "delete2048Deployment" -> "2048Deployment"
      [] s = "delete2048Service" -> "2048Service"
      [] s = "delete2048Ingress" -> "2048Ingress"
      [] s = "DeleteELBv2" -> "ELBv2"

\* every resource of the add-on
AllResources(t) == UNION {Creates(CreateSteps(t)[i]) : i \in 1..Len(CreateSteps(t))}

\* the deletion steps of the fargate tester that return every error of the
\* Kubernetes Delete call, "not found" included
ReturnsNotFound(t, s) == t = "fargate" /\ s \in {"deletePod", "deleteSecret"}

ChecksCollectedErrsNever(t) == FALSE

\* whether Delete tests len(errs) > 0 before it clears Created
ChecksCollectedErrs(t) == t = "alb"

\* what a call returns
NoRet == [kind |-> "none", msgs |-> <<>>]
RetNil == [kind |-> "nil", msgs |-> <<>>]
RetErr(m) == [kind |-> "err", msgs |-> m]

\* the result of a step, or of EKSConfig.Sync()
StepResults == {"nil", "err"}

\* the results of the deletion step s when the resources of present exist: the
\* Delete call on a resource that does not exist fails with "not found", and
\* deleteRole returns nil when there is no role stack
DeleteResults(t, s, present) ==
    IF Deletes(s) \in present THEN StepResults
    ELSE IF ReturnsNotFound(t, s) THEN {"err"}
    ELSE IF t = "fargate" /\ s = "deleteRole" THEN {"nil"}
    ELSE StepResults

InitTesterState ==
    /\ Created \in BOOLEAN
    /\ op = "idle"
    /\ step = 0
    /\ errs = <<>>
    /\ ret = NoRet
    /\ resources = IF Created THEN AllResources(ts) ELSE {}
    /\ calls = <<>>
    /\ failed = {}
    /\ lastOp = "none"
    /\ createdBefore = Created
    /\ made = resources
    /\ createFailed = FALSE
    /\ stepsDone = Created

InitTesters == ts \in Testers /\ InitTesterState

CreateNeverSkips(c) == FALSE

\* if ts.cfg.EKSConfig.AddOn*.Created { return nil }
CreateSkips(c) == c

\* if !ts.cfg.EKSConfig.AddOn*.Created { return nil }
DeleteSkips(c) == ~c

\* Create is called: the skip test, Created = true, Sync
CreateBegin ==
    /\ op = "idle"
    /\ lastOp' = "create"
    /\ createdBefore' = Created
    /\ calls' = <<>>
    /\ failed' = {}
    /\ errs' = <<>>
    /\ IF CreateSkips(Created)
         THEN /\ ret' = RetNil
              /\ UNCHANGED <<Created, op, step, made, createFailed, stepsDone>>
         ELSE /\ Created' = TRUE
              /\ op' = "create"
              /\ step' = 1
              /\ ret' = NoRet
              /\ made' = {}
              /\ createFailed' = FALSE
              /\ stepsDone' = FALSE
    /\ UNCHANGED <<ts, resources, nonTesterVars>>

CreateFailureContinues(i, n) == i + 1

\* if err := step(); err != nil { return err }
CreateFailureEnds(i, n) == n + 1

\* one creation step returns
CreateStep ==
    /\ op = "create"
    /\ step <= Len(CreateSteps(ts))
    /\ calls' = Append(calls, CreateSteps(ts)[step])
    /\ \E r \in StepResults :
         IF r = "nil"
           THEN /\ step' = step + 1
                /\ resources' = resources \cup Creates(CreateSteps(ts)[step])
                /\ made' = made \cup Creates(CreateSteps(ts)[step])
                /\ stepsDone' = (step = Len(CreateSteps(ts)) /\ ~createFailed)
                /\ UNCHANGED <<op, ret, failed, createFailed>>
           ELSE /\ failed' = failed \cup {CreateSteps(ts)[step]}
                /\ step' = CreateFailureEnds(step, Len(CreateSteps(ts)))
                /\ resources' \in {resources, resources \cup Creates(CreateSteps(ts)[step])}
                /\ createFailed' = TRUE
                /\ IF step' > Len(CreateSteps(ts))
                     THEN ret' = RetErr(<<CreateSteps(ts)[step]>>) /\ op' = "idle"
                     ELSE UNCHANGED <<op, ret>>
                /\ UNCHANGED <<made, stepsDone>>
    /\ UNCHANGED <<ts, Created, errs, lastOp, createdBefore, nonTesterVars>>

\* return ts.cfg.EKSConfig.Sync()
CreateEnd ==
    /\ op = "create"
    /\ step = Len(CreateSteps(ts)) + 1
    /\ \E r \in StepResults :
         /\ ret' = IF r = "nil" THEN RetNil ELSE RetErr(<<"Sync">>)
         /\ createFailed' = (r = "err")
    /\ op' = "idle"
    /\ UNCHANGED <<ts, Created, step, errs, resources, calls, failed, lastOp, createdBefore,
                   made, stepsDone, nonTesterVars>>

\* Delete is called: the skip test
DeleteBegin ==
    /\ op = "idle"
    /\ lastOp' = "delete"
    /\ createdBefore' = Created
    /\ calls' = <<>>
    /\ failed' = {}
    /\ errs' = <<>>
    /\ IF DeleteSkips(Created)
         THEN /\ ret' = RetNil
              /\ UNCHANGED <<op, step>>
         ELSE /\ op' = "delete"
              /\ step' = 1
              /\ ret' = NoRet
    /\ UNCHANGED <<ts, Created, resources, made, createFailed, stepsDone, nonTesterVars>>

\* one deletion step returns
DeleteStep ==
    /\ op = "delete"
    /\ step <= Len(DeleteSteps(ts))
    /\ LET d == DeleteSteps(ts)[step] IN
       /\ calls' = Append(calls, d.name)
       /\ \E r \in DeleteResults(ts, d.name, resources) :
            IF r = "nil"
              THEN /\ step' = step + 1
                   /\ resources' = resources \ {Deletes(d.name)}
                   /\ UNCHANGED <<op, ret, errs, failed>>
              ELSE /\ failed' = failed \cup {d.name}
                   /\ UNCHANGED resources
                   /\ IF d.onErr = "collect"
                        THEN /\ errs' = Append(errs, d.msg)
                             /\ step' = step + 1
                             /\ UNCHANGED <<op, ret>>
                        ELSE /\ ret' = RetErr(<<d.name>>)
                             /\ op' = "idle"
                             /\ UNCHANGED <<errs, step>>
    /\ UNCHANGED <<ts, Created, lastOp, createdBefore, made, createFailed, stepsDone,
                   nonTesterVars>>

\* if len(errs) > 0 { return errors.New(...) }; Created = false; return Sync()
DeleteEnd ==
    /\ op = "delete"
    /\ step = Len(DeleteSteps(ts)) + 1
    /\ IF ChecksCollectedErrs(ts) /\ Len(errs) > 0
         THEN /\ ret' = RetErr(errs)
              /\ UNCHANGED <<Created, stepsDone>>
         ELSE /\ Created' = FALSE
              /\ stepsDone' = FALSE
              /\ \E r \in StepResults :
                   ret' = IF r = "nil" THEN RetNil ELSE RetErr(<<"Sync">>)
    /\ op' = "idle"
    /\ UNCHANGED <<ts, step, errs, resources, calls, failed, lastOp, createdBefore,
                   made, createFailed, nonTesterVars>>

NextTesters ==
    \/ CreateBegin
    \/ CreateStep
    \/ CreateEnd
    \/ DeleteBegin
    \/ DeleteStep
    \/ DeleteEnd

(***************************************************************************)
(* Part III.  eksconfig: UpdateFromEnvs and parseEnvs                      *)
(* Strings are sequences of one-character strings.                         *)
(***************************************************************************)

EnvironmentVariablePrefix ==
    <<"A", "W", "S", "_", "K", "8", "S", "_", "T", "E", "S", "T", "E", "R", "_", "E", "K", "S", "_">>

EnvironmentVariablePrefixAddOnALB2048 ==
    <<"A", "W", "S", "_", "K", "8", "S", "_", "T", "E", "S", "T", "E", "R", "_", "E", "K", "S", "_", "A", "D", "D", "_", "O", "N", "_", "A", "L", "B", "_", "2", "0", "4", "8", "_">>

\* the fields of Config and of AddOnALB2048 the model follows, in the order of
\* the struct: field name, json tag, read-only tag, kind, and the variable the
\* documentation names for it
ConfigFields ==
    << [name |-> "Name", json |-> <<"n", "a", "m", "e">>, ro |-> "false", kind |-> "string",
        doc |-> <<"A", "W", "S", "_", "K", "8", "S", "_", "T", "E", "S", "T", "E", "R", "_", "E", "K", "S", "_", "N", "A", "M", "E">>],
       [name |-> "LogOutputs", json |-> <<"l", "o", "g", "-", "o", "u", "t", "p", "u", "t", "s">>, ro |-> "false", kind |-> "slice",
        doc |-> <<"A", "W", "S", "_", "K", "8", "S", "_", "T", "E", "S", "T", "E", "R", "_", "E", "K", "S", "_", "L", "O", "G", "_", "O", "U", "T", "P", "U", "T", "S">>],
       [name |-> "OnFailureDelete", json |-> <<"o", "n", "-", "f", "a", "i", "l", "u", "r", "e", "-", "d", "e", "l", "e", "t", "e">>, ro |-> "false", kind |-> "bool",
        doc |-> <<"A", "W", "S", "_", "K", "8", "S", "_", "T", "E", "S", "T", "E", "R", "_", "E", "K", "S", "_", "O", "N", "_", "F", "A", "I", "L", "U", "R", "E", "_", "D", "E", "L", "E", "T", "E">>] >>

AddOnALB2048Fields ==
    << [name |-> "Created", json |-> <<"c", "r", "e", "a", "t", "e", "d">>, ro |-> "true", kind |-> "bool",
        doc |-> <<"A", "W", "S", "_", "K", "8", "S", "_", "T", "E", "S", "T", "E", "R", "_", "E", "K", "S", "_", "A", "D", "D", "_", "O", "N", "_", "A", "L", "B", "_", "2", "0", "4", "8", "_", "C", "R", "E", "A", "T", "E", "D">>],
       [name |-> "DeploymentReplicasALB", json |-> <<"d", "e", "p", "l", "o", "y", "m", "e", "n", "t", "-", "r", "e", "p", "l", "i", "c", "a", "s", "-", "a", "l", "b">>, ro |-> "false", kind |-> "int32",
        doc |-> <<"A", "W", "S", "_", "K", "8", "S", "_", "T", "E", "S", "T", "E", "R", "_", "E", "K", "S", "_", "A", "D", "D", "_", "O", "N", "_", "A", "L", "B", "_", "2", "0", "4", "8", "_", "D", "E", "P", "L", "O", "Y", "M", "E", "N", "T", "_", "R", "E", "P", "L", "I", "C", "A", "S", "_", "A", "L", "B">>],
       [name |-> "URL", json |-> <<"u", "r", "l">>, ro |-> "true", kind |-> "string",
        doc |-> <<"A", "W", "S", "_", "K", "8", "S", "_", "T", "E", "S", "T", "E", "R", "_", "E", "K", "S", "_", "A", "D", "D", "_", "O", "N", "_", "A", "L", "B", "_", "2", "0", "4", "8", "_", "U", "R", "L">>] >>

\* the parseEnvs calls of UpdateFromEnvs, in order
Sections ==
    << [pfx |-> EnvironmentVariablePrefix, fields |-> ConfigFields],
       [pfx |-> EnvironmentVariablePrefixAddOnALB2048, fields |-> AddOnALB2048Fields] >>

AllFields == ConfigFields \o AddOnALB2048Fields

FieldNames == {AllFields[i].name : i \in 1..Len(AllFields)}

\* ---- strings

\* unicode.ToUpper on the letters of a tag
UpperChar(c) ==
    CASE c = "a" -> "A"
      [] c = "b" -> "B"
      [] c = "c" -> "C"
      [] c = "d" -> "D"
      [] c = "e" -> "E"
      [] c = "f" -> "F"
      [] c = "g" -> "G"
      [] c = "h" -> "H"
      [] c = "i" -> "I"
      [] c = "j" -> "J"
      [] c = "k" -> "K"
      [] c = "l" -> "L"
      [] c = "m" -> "M"
      [] c = "n" -> "N"
      [] c = "o" -> "O"
      [] c = "p" -> "P"
      [] c = "q" -> "Q"
      [] c = "r" -> "R"
      [] c = "s" -> "S"
      [] c = "t" -> "T"
      [] c = "u" -> "U"
      [] c = "v" -> "V"
      [] c = "w" -> "W"
      [] c = "x" -> "X"
      [] c = "y" -> "Y"
      [] c = "z" -> "Z"
      [] OTHER -> c

ToUpper(str) == [i \in 1..Len(str) |-> UpperChar(str[i])]

HasPrefix(str, p) == Len(p) <= Len(str) /\ SubSeq(str, 1, Len(p)) = p

\* strings.Replace(str, old, new, -1) for a non-empty old
RECURSIVE Replace(_, _, _)
Replace(str, old, new) ==
    IF str = <<>> THEN <<>>
    ELSE IF HasPrefix(str, old)
           THEN new \o Replace(SubSeq(str, Len(old) + 1, Len(str)), old, new)
           ELSE <<Head(str)>> \o Replace(Tail(str), old, new)

\* strings.Split(str, sep) for a one-character sep
RECURSIVE Split(_, _)
Split(str, sep) ==
    IF \A i \in 1..Len(str) : str[i] # sep THEN <<str>>
    ELSE LET k == CHOOSE i \in 1..Len(str) :
                      str[i] = sep /\ \A j \in 1..(i - 1) : str[j] # sep
         IN <<SubSeq(str, 1, k - 1)>> \o Split(SubSeq(str, k + 1, Len(str)), sep)

\* env := pfx + strings.ToUpper(strings.Replace(jv, "-", "_", -1))
EnvName(pfx, json) ==
    pfx \o ToUpper(Replace(Replace(json, <<",", "o", "m", "i", "t", "e", "m", "p", "t", "y">>, <<>>), <<"-">>, <<"_">>))

\* os.Getenv
Getenv(e, name) == IF name \in DOMAIN e THEN e[name] ELSE <<>>

\* ---- strconv

\* a parse result
Ok(v) == [ok |-> TRUE, val |-> v]
Fail == [ok |-> FALSE, val |-> <<>>]

\* strconv.ParseBool
ParseBool(str) ==
    IF str \in {<<"1">>, <<"t">>, <<"T">>, <<"T", "R", "U", "E">>, <<"t", "r", "u", "e">>, <<"T", "r", "u", "e">>} THEN Ok(TRUE)
    ELSE IF str \in {<<"0">>, <<"f">>, <<"F">>, <<"F", "A", "L", "S", "E">>, <<"f", "a", "l", "s", "e">>, <<"F", "a", "l", "s", "e">>} THEN Ok(FALSE)
    ELSE Fail

\* integers: a sign and a magnitude of four 16-bit limbs, most significant
\* first (a 64-bit magnitude)
Digits == {"0", "1", "2", "3", "4", "5", "6", "7", "8", "9"}

DigitVal(c) ==
    CASE c = "0" -> 0 [] c = "1" -> 1 [] c = "2" -> 2 [] c = "3" -> 3 [] c = "4" -> 4
      [] c = "5" -> 5 [] c = "6" -> 6 [] c = "7" -> 7 [] c = "8" -> 8 [] c = "9" -> 9

ZeroMag == <<0, 0, 0, 0>>

IntVal(neg, mag) == [neg |-> neg /\ mag # ZeroMag, mag |-> mag]

\* mag * 10 + d, and whether it leaves 64 bits
Mul10Add(mag, d) ==
    LET t4 == mag[4] * 10 + d
        t3 == mag[3] * 10 + t4 \div 65536
        t2 == mag[2] * 10 + t3 \div 65536
        t1 == mag[1] * 10 + t2 \div 65536
    IN [mag |-> <<t1 % 65536, t2 % 65536, t3 % 65536, t4 % 65536>>,
        over |-> t1 \div 65536 > 0]

\* the magnitude of a string of decimal digits
RECURSIVE ParseMag(_, _)
ParseMag(str, acc) ==
    IF str = <<>> THEN Ok(acc)
    ELSE IF Head(str) \notin Digits THEN Fail
    ELSE LET m == Mul10Add(acc, DigitVal(Head(str)))
         IN IF m.over THEN Fail ELSE ParseMag(Tail(str), m.mag)

\* strconv.ParseInt(str, 10, 64)
ParseInt(str) ==
    LET neg == str # <<>> /\ Head(str) = "-"
        body == IF str # <<>> /\ Head(str) \in {"+", "-"} THEN Tail(str) ELSE str
        m == IF body = <<>> THEN Fail ELSE ParseMag(body, ZeroMag)
    IN IF ~m.ok THEN Fail
       ELSE IF m.val[1] >= 32768 /\ ~(neg /\ m.val = <<32768, 0, 0, 0>>) THEN Fail
       ELSE Ok(IntVal(neg, m.val))

\* 2^32 - <<a, b>> for a non-zero <<a, b>>
Neg32(a, b) == IF b = 0 THEN <<65536 - a, 0>> ELSE <<65535 - a, 65536 - b>>

\* the 32 bits <<a, b>> read as a two's complement int32
Signed32(a, b) ==
    IF a < 32768 THEN IntVal(FALSE, <<0, 0, a, b>>)
    ELSE IntVal(TRUE, <<0, 0, Neg32(a, b)[1], Neg32(a, b)[2]>>)

\* reflect.Value.SetInt on an int32 field: int32(x)
Int32Of(v) ==
    LET a == v.mag[3]
        b == v.mag[4]
    IN IF ~v.neg THEN Signed32(a, b)
       ELSE IF a = 0 /\ b = 0 THEN IntVal(FALSE, ZeroMag)
       ELSE Signed32(Neg32(a, b)[1], Neg32(a, b)[2])

\* the value parseEnvs stores in a field of the kind for the value sv
ParseField(kind, sv) ==
    CASE kind = "string" -> Ok(sv)
      [] kind = "bool" -> ParseBool(sv)
      [] kind = "int32" ->
           IF ParseInt(sv).ok THEN Ok(Int32Of(ParseInt(sv).val)) ELSE Fail
      [] kind = "slice" -> Ok(Split(sv, ","))
      [] OTHER -> Fail

SkipsFieldNever(sv, ro) == FALSE

SkipsFieldEmptyOnly(sv, ro) == sv = <<>>

\* if sv == "" { continue }; if read-only == "true" { continue }
SkipsField(sv, ro) == sv = <<>> \/ ro = "true"

\* parseEnvs from field i on: the values and the error ("nil", or the name of
\* the field whose value failed to parse)
RECURSIVE ParseEnvsFrom(_, _, _, _, _)
ParseEnvsFrom(e, pfx, fields, i, vals) ==
    IF i > Len(fields) THEN [vals |-> vals, err |-> "nil"]
    ELSE LET f == fields[i]
             sv == Getenv(e, EnvName(pfx, f.json))
         IN IF f.json = <<>> \/ SkipsField(sv, f.ro)
              THEN ParseEnvsFrom(e, pfx, fields, i + 1, vals)
              ELSE IF ParseField(f.kind, sv).ok
                     THEN ParseEnvsFrom(e, pfx, fields, i + 1,
                                        [vals EXCEPT ![f.name] = ParseField(f.kind, sv).val])
                     ELSE [vals |-> vals, err |-> f.name]

ParseEnvs(e, pfx, fields, vals) == ParseEnvsFrom(e, pfx, fields, 1, vals)

\* UpdateFromEnvs from section k on
RECURSIVE UpdateFrom(_, _, _)
UpdateFrom(e, k, vals) ==
    IF k > Len(Sections) THEN [vals |-> vals, err |-> "nil"]
    ELSE LET r == ParseEnvs(e, Sections[k].pfx, Sections[k].fields, vals)
         IN IF r.err # "nil" THEN r ELSE UpdateFrom(e, k + 1, r.vals)

\* ---- states

\* the values a variable of the environment may hold
EnvValues ==
    { <<>>, <<"t", "r", "u", "e">>, <<"a", ",", "b">>, <<"7">>, <<"4", "2", "9", "4", "9", "6", "7", "2", "9", "7">> }

\* a config with zero values, and one with every field set
ZeroConfig ==
    [n \in FieldNames |->
        CASE n \in {"Name", "URL", "LogOutputs"} -> <<>>
          [] n \in {"OnFailureDelete", "Created"} -> FALSE
          [] OTHER -> IntVal(FALSE, ZeroMag)]

SetConfig ==
    [n \in FieldNames |->
        CASE n = "Name" -> <<"e", "k", "s">>
          [] n = "URL" -> <<"u">>
          [] n = "LogOutputs" -> <<<<"s", "t", "d", "e", "r", "r">>>>
          [] n \in {"OnFailureDelete", "Created"} -> TRUE
          [] OTHER -> IntVal(FALSE, <<0, 0, 0, 3>>)]

\* the names the documentation lists for the fields
DocEnvNames == {AllFields[i].doc : i \in 1..Len(AllFields)}

InitEnv ==
    /\ env \in [DocEnvNames -> EnvValues]
    /\ cfg \in {ZeroConfig, SetConfig}
    /\ updErr = "none"
    /\ called = FALSE
    /\ cfg0 = cfg

\* func (cfg *Config) UpdateFromEnvs() (err error)
UpdateFromEnvs ==
    /\ cfg0' = cfg
    /\ called' = TRUE
    /\ cfg' = UpdateFrom(env, 1, cfg).vals
    /\ updErr' = UpdateFrom(env, 1, cfg).err
    /\ UNCHANGED <<env, nonEnvVars>>

NextEnv == UpdateFromEnvs

(***************************************************************************)
(* Part IV.  eksconfig: ValidateAndSetDefaults                             *)
(* The Config is a record of the fields the validation reads and writes;   *)
(* strings are sequences of one-character strings.                         *)
(***************************************************************************)

\* unicode.ToLower on the letters of a name
LowerChar(c) ==
    CASE c = "A" -> "a"
      [] c = "B" -> "b"
      [] c = "C" -> "c"
      [] c = "D" -> "d"
      [] c = "E" -> "e"
      [] c = "F" -> "f"
      [] c = "G" -> "g"
      [] c = "H" -> "h"
      [] c = "I" -> "i"
      [] c = "J" -> "j"
      [] c = "K" -> "k"
      [] c = "L" -> "l"
      [] c = "M" -> "m"
      [] c = "N" -> "n"
      [] c = "O" -> "o"
      [] c = "P" -> "p"
      [] c = "Q" -> "q"
      [] c = "R" -> "r"
      [] c = "S" -> "s"
      [] c = "T" -> "t"
      [] c = "U" -> "u"
      [] c = "V" -> "v"
      [] c = "W" -> "w"
      [] c = "X" -> "x"
      [] c = "Y" -> "y"
      [] c = "Z" -> "z"
      [] OTHER -> c

ToLower(str) == [i \in 1..Len(str) |-> LowerChar(str[i])]

\* filepath.Ext: the suffix from the last dot of the last element of the path
RECURSIVE ExtFrom(_, _)
ExtFrom(p, i) ==
    IF i = 0 THEN <<>>
    ELSE IF p[i] = "/" THEN <<>>
    ELSE IF p[i] = "." THEN SubSeq(p, i, Len(p))
    ELSE ExtFrom(p, i - 1)

Ext(p) == ExtFrom(p, Len(p))

\* get "role-eks" from "arn:aws:iam::123:role/role-eks"
getNameFromARN(arn) == Split(arn, "/")[Len(Split(arn, "/"))]

\* ---- strconv.ParseFloat on decimal numerals: the value num / den, with den
\* the least power of ten

RECURSIVE Reduce10(_, _)
Reduce10(num, den) ==
    IF den > 1 /\ num % 10 = 0 THEN Reduce10(num \div 10, den \div 10)
    ELSE [num |-> num, den |-> den]

RECURSIVE ParseDecimal(_, _, _, _)
ParseDecimal(str, num, den, seenDot) ==
    IF str = <<>> THEN Ok(Reduce10(num, den))
    ELSE IF Head(str) = "." /\ ~seenDot THEN ParseDecimal(Tail(str), num, den, TRUE)
    ELSE IF Head(str) \notin Digits THEN Fail
    ELSE ParseDecimal(Tail(str), num * 10 + DigitVal(Head(str)),
                      IF seenDot THEN den * 10 ELSE den, seenDot)

\* strconv.ParseFloat(str, 64)
ParseFloat(str) ==
    IF \A i \in 1..Len(str) : str[i] \notin Digits THEN Fail
    ELSE ParseDecimal(str, 0, 1, FALSE)

ZeroFloat == [num |-> 0, den |-> 1]

\* a < b on such values
FloatLess(a, b) == a.num * b.den < b.num * a.den

\* the float64 constant 1.14
MinVersionValue == [num |-> 114, den |-> 100]

\* cfg.Parameters.VersionValue < 1.14
OlderThanMin(v) == FloatLess(v, MinVersionValue)

\* ---- results of the validate functions

Valid(c) == [cfg |-> c, err |-> "nil"]
Invalid(c, e) == [cfg |-> c, err |-> e]

\* if err := f(); err != nil { return err }
Then(r, f(_)) == IF r.err # "nil" THEN r ELSE f(r.cfg)

\* ---- validateConfig

Regions == {<<"u", "s", "-", "w", "e", "s", "t", "-", "2">>}

\* cfg.LogOutputs = append(cfg.LogOutputs, cfg.ConfigPath+".log")
defaultLogOutputs(c) ==
    IF Len(c.LogOutputs) = 1 /\ c.LogOutputs[1] \in {<<"s", "t", "d", "e", "r", "r">>, <<"s", "t", "d", "o", "u", "t">>}
      THEN [c EXCEPT !.LogOutputs = Append(c.LogOutputs, c.ConfigPath \o <<".", "l", "o", "g">>)]
      ELSE c

defaultKubectlCommandsOutputPath(c) ==
    LET p == IF c.KubectlCommandsOutputPath = <<>>
               THEN Replace(c.ConfigPath, <<".", "y", "a", "m", "l">>, <<>>) \o <<".", "k", "u", "b", "e", "c", "t", "l", ".", "s", "h">>
               ELSE c.KubectlCommandsOutputPath
    IN [c EXCEPT !.KubectlCommandsOutputPath = IF Ext(p) # <<".", "s", "h">> THEN p \o <<".", "s", "h">> ELSE p]

defaultKubeConfigPath(c) ==
    IF c.KubeConfigPath = <<>>
      THEN [c EXCEPT !.KubeConfigPath =
                         Replace(c.ConfigPath, <<".", "y", "a", "m", "l">>, <<>>) \o <<".", "k", "u", "b", "e", "c", "o", "n", "f", "i", "g", ".", "y", "a", "m", "l">>]
      ELSE c

defaultS3Bucket(c) ==
    IF c.S3BucketCreate
      THEN [c EXCEPT !.S3BucketName =
                         IF @ = <<>> THEN c.Name \o <<"-", "s", "3", "-", "b", "u", "c", "k", "e", "t">> ELSE @,
                     !.S3BucketLifecycleExpirationDays =
                         IF @ > 0 /\ @ < 3 THEN 3 ELSE @]
      ELSE c

\* os.Getwd()
Getwd == <<"/", "w">>

\* cfg.ConfigPath = filepath.Join(rootDir, cfg.Name+".yaml")
defaultConfigPath(c) ==
    IF c.ConfigPath = <<>>
      THEN [c EXCEPT !.ConfigPath = Getwd \o <<"/">> \o c.Name \o <<".", "y", "a", "m", "l">>]
      ELSE c

validateConfig(c) ==
    IF c.Region \notin Regions THEN Invalid(c, "region not found")
    ELSE IF Len(c.Name) = 0 THEN Invalid(c, "Name is empty")
    ELSE IF c.Name # ToLower(c.Name) THEN Invalid(c, "Name must be in lower-case")
    ELSE IF Len(c.LogOutputs) = 0 THEN Invalid(c, "LogOutputs is not empty")
    ELSE Valid(defaultS3Bucket(defaultKubeConfigPath(
                   defaultKubectlCommandsOutputPath(defaultLogOutputs(defaultConfigPath(c))))))

\* ---- the role of a component

overwriteRoleName(c, comp, suffix) == [c EXCEPT ![comp].RoleName = c.Name \o suffix]

\* an empty RoleName becomes the cluster name plus the suffix of the component
defaultRoleName(c, comp, suffix) ==
    [c EXCEPT ![comp].RoleName = IF @ = <<>> THEN c.Name \o suffix ELSE @]

keepRoleName(c, comp) == c

\* an empty RoleName becomes the name in the RoleARN
roleNameFromARN(c, comp) ==
    [c EXCEPT ![comp].RoleName = IF @ = <<>> THEN getNameFromARN(c[comp].RoleARN) ELSE @]

\* no service principal of the role is "ec2.amazonaws.com"
lacksEC2(principals) ==
    /\ Len(principals) > 0
    /\ \A i \in 1..Len(principals) : principals[i] # <<"e", "c", "2", ".", "a", "m", "a", "z", "o", "n", "a", "w", "s", ".", "c", "o", "m">>

\* switch RoleCreate, for the component comp with its role suffix; the two
\* node-group components also look for the EC2 service principal
validateRole(c, comp, suffix, needsEC2) ==
    IF c[comp].RoleCreate
      THEN IF needsEC2 /\ lacksEC2(c[comp].RoleServicePrincipals)
             THEN Invalid(defaultRoleName(c, comp, suffix),
                          "RoleServicePrincipals must include ec2.amazonaws.com")
             ELSE Valid(defaultRoleName(c, comp, suffix))
      ELSE IF c[comp].RoleARN = <<>>
             THEN Invalid(c, "RoleCreate false; expect non-empty RoleARN")
           ELSE IF Len(c[comp].RoleManagedPolicyARNs) > 0
             THEN Invalid(roleNameFromARN(c, comp),
                          "RoleCreate false; expect empty RoleManagedPolicyARNs")
           ELSE IF Len(c[comp].RoleServicePrincipals) > 0
             THEN Invalid(roleNameFromARN(c, comp),
                          "RoleCreate false; expect empty RoleServicePrincipals")
           ELSE Valid(roleNameFromARN(c, comp))

\* ---- validateParameters

validateParameters(c) ==
    IF c.Parameters.Version = <<>> THEN Invalid(c, "empty Parameters.Version")
    ELSE IF ~ParseFloat(c.Parameters.Version).ok
      THEN Invalid([c EXCEPT !.Parameters.VersionValue = ZeroFloat],
                   "cannot parse Parameters.Version")
    ELSE validateRole([c EXCEPT !.Parameters.VersionValue =
                                    ParseFloat(c.Parameters.Version).val],
                      "Parameters", <<"-", "r", "o", "l", "e", "-", "c", "l", "u", "s", "t", "e", "r">>, FALSE)

\* ---- the node groups

\* the limits on the number of node groups and on the size of one (declared
\* outside these sources; small values stand for them)
NGsMaxLimit == 1
NGMaxLimit == 2
MNGsMaxLimit == 1
MNGMaxLimit == 2

DefaultNodeVolumeSize == 40

\* the int64 sizes of a node group: the value hi * 2^32 + lo, with lo the low
\* 32 bits read as an int32
Int64(hi, lo) == [hi |-> hi, lo |-> lo]

Greater64Never(a, b) == FALSE

\* a > b
Greater64(a, b) == a.hi > b.hi \/ (a.hi = b.hi /\ a.lo > b.lo)

\* int32(v)
ToInt32(v) == v.lo
DefaultNodeInstanceTypeCPU == <<"c", "5", ".", "x", "l", "a", "r", "g", "e">>
DefaultNodeInstanceTypeGPU == <<"p", "3", ".", "8", "x", "l", "a", "r", "g", "e">>

\* the AMI types each kind of node group accepts
AMITypeBottleRocketCPU == "BOTTLEROCKET_x86_64"
AMITypesAl2X8664 == "AL2_x86_64"
AMITypesAl2X8664Gpu == "AL2_x86_64_GPU"
NGAMITypes == {AMITypeBottleRocketCPU, AMITypesAl2X8664, AMITypesAl2X8664Gpu}
MNGAMITypes == {AMITypesAl2X8664, AMITypesAl2X8664Gpu}

\* cfg.IsEnabledAddOn...(), for the component comp
IsEnabled(c, comp) == c[comp].Enable

\* strings.HasPrefix(ivt, "m3.") || strings.HasPrefix(ivt, "c4.")
olderInstanceType(ivt) == HasPrefix(ivt, <<"m", "3", ".">>) \/ HasPrefix(ivt, <<"c", "4", ".">>)

\* the defaults of one ASG or MNG
defaultGroup(v) ==
    [v EXCEPT !.VolumeSize = IF @ = 0 THEN DefaultNodeVolumeSize ELSE @,
              !.RemoteAccessUserName = IF @ = <<>> THEN <<"e", "c", "2", "-", "u", "s", "e", "r">> ELSE @,
              !.InstanceTypes =
                  IF Len(@) # 0 THEN @
                  ELSE IF v.AMIType = AMITypesAl2X8664Gpu
                         THEN <<DefaultNodeInstanceTypeGPU>>
                         ELSE <<DefaultNodeInstanceTypeCPU>>]

\* if replicas < int32(v.ASGDesiredCapacity) { replicas = int32(v.ASGDesiredCapacity) }
Raise(replicas, capacity) == IF replicas < capacity THEN capacity ELSE replicas

\* the replica counts of the enabled load-balancer add-ons, raised to the
\* desired capacity of the group
raiseReplicas(c, capacity) ==
    [c EXCEPT !.AddOnNLBHelloWorld.DeploymentReplicas =
                  IF IsEnabled(c, "AddOnNLBHelloWorld") THEN Raise(@, capacity) ELSE @,
              !.AddOnALB2048.DeploymentReplicasALB =
                  IF IsEnabled(c, "AddOnALB2048") THEN Raise(@, capacity) ELSE @,
              !.AddOnALB2048.DeploymentReplicas2048 =
                  IF IsEnabled(c, "AddOnALB2048") THEN Raise(@, capacity) ELSE @]

\* the error of the entry v under the key k, or "nil"; managed says that the
\* entry is an MNG
groupError(c, k, v, managed) ==
    IF v.Name = <<>> THEN "Name is empty"
    ELSE IF k # v.Name THEN "Name has different Name field"
    ELSE IF managed /\ IsEnabled(c, "AddOnNodeGroups") /\ v.Name \in DOMAIN c.AddOnNodeGroups.ASGs
      THEN "name is conflicting with NG ASG"
    ELSE IF Len(v.InstanceTypes) > 4 THEN "too many InstaceTypes"
    ELSE IF v.AMIType \notin (IF managed THEN MNGAMITypes ELSE NGAMITypes)
      THEN "unknown AMIType"
    ELSE IF defaultGroup(v).RemoteAccessUserName # <<"e", "c", "2", "-", "u", "s", "e", "r">>
      THEN "unexpected RemoteAccessUserName"
    ELSE IF /\ IsEnabled(c, "AddOnNLBHelloWorld") \/ IsEnabled(c, "AddOnALB2048")
            /\ \E i \in 1..Len(defaultGroup(v).InstanceTypes) :
                   olderInstanceType(defaultGroup(v).InstanceTypes[i])
      THEN "older instance type"
    ELSE IF Greater64(v.ASGMinSize, v.ASGMaxSize) THEN "ASGMinSize > ASGMaxSize"
    ELSE IF Greater64(v.ASGDesiredCapacity, v.ASGMaxSize)
      THEN "ASGDesiredCapacity > ASGMaxSize"
    ELSE IF Greater64(v.ASGMaxSize, Int64(0, IF managed THEN MNGMaxLimit ELSE NGMaxLimit))
      THEN "ASGMaxSize > limit"
    ELSE IF Greater64(v.ASGDesiredCapacity,
                      Int64(0, IF managed THEN MNGMaxLimit ELSE NGMaxLimit))
      THEN "ASGDesiredCapacity > limit"
    ELSE "nil"

\* for k, v := range cfg.AddOnNodeGroups.ASGs, from the i-th key of the order
\* the range takes
RECURSIVE validateASGs(_, _, _)
validateASGs(c, order, i) ==
    IF i > Len(order) THEN Valid(c)
    ELSE LET k == order[i]
             v == c.AddOnNodeGroups.ASGs[k]
         IN IF groupError(c, k, v, FALSE) # "nil"
              THEN Invalid(c, groupError(c, k, v, FALSE))
              ELSE validateASGs(
                       [raiseReplicas(c, ToInt32(v.ASGDesiredCapacity))
                            EXCEPT !.AddOnNodeGroups.ASGs[k] = defaultGroup(v)],
                       order, i + 1)

\* for k, v := range cfg.AddOnManagedNodeGroups.MNGs
RECURSIVE validateMNGs(_, _, _)
validateMNGs(c, order, i) ==
    IF i > Len(order) THEN Valid(c)
    ELSE LET k == order[i]
             v == c.AddOnManagedNodeGroups.MNGs[k]
         IN IF groupError(c, k, v, TRUE) # "nil"
              THEN Invalid(c, groupError(c, k, v, TRUE))
              ELSE validateMNGs(
                       [raiseReplicas(c, ToInt32(v.ASGDesiredCapacity))
                            EXCEPT !.AddOnManagedNodeGroups.MNGs[k] = defaultGroup(v)],
                       order, i + 1)

\* the number of keys of a map
Size(m) == Cardinality(DOMAIN m)

\* the orders in which a range may take the keys of a map
Orders(m) ==
    {o \in [1..Size(m) -> DOMAIN m] : \A i, j \in 1..Size(m) : o[i] = o[j] => i = j}

validateAddOnNodeGroups(c, order) ==
    IF ~IsEnabled(c, "AddOnNodeGroups") THEN Valid(c)
    ELSE IF Size(c.AddOnNodeGroups.ASGs) = 0 THEN Invalid(c, "empty ASGs")
    ELSE IF Size(c.AddOnNodeGroups.ASGs) > NGsMaxLimit THEN Invalid(c, "NGs exceeds maximum")
    ELSE IF OlderThanMin(c.Parameters.VersionValue)
      THEN Invalid(c, "Version not supported for AddOnNodeGroups")
    ELSE LET r == validateRole(c, "AddOnNodeGroups", <<"-", "r", "o", "l", "e", "-", "n", "g">>, TRUE)
         IN IF r.err # "nil" THEN r ELSE validateASGs(r.cfg, order, 1)

validateAddOnManagedNodeGroups(c, order) ==
    IF ~IsEnabled(c, "AddOnManagedNodeGroups") THEN Valid(c)
    ELSE IF Size(c.AddOnManagedNodeGroups.MNGs) = 0 THEN Invalid(c, "empty MNGs")
    ELSE IF Size(c.AddOnManagedNodeGroups.MNGs) > MNGsMaxLimit
      THEN Invalid(c, "MNGs exceeds maximum")
    ELSE IF OlderThanMin(c.Parameters.VersionValue)
      THEN Invalid(c, "Version not supported for AddOnManagedNodeGroups")
    ELSE LET r == validateRole(c, "AddOnManagedNodeGroups", <<"-", "r", "o", "l", "e", "-", "m", "n", "g">>, TRUE)
         IN IF r.err # "nil" THEN r ELSE validateMNGs(r.cfg, order, 1)

\* ---- the add-ons that run on nodes

noNodeGroup(c) == ~IsEnabled(c, "AddOnNodeGroups") /\ ~IsEnabled(c, "AddOnManagedNodeGroups")

NodeGroupRequiredNever(c) == FALSE

\* if !cfg.IsEnabledAddOnNodeGroups() && !cfg.IsEnabledAddOnManagedNodeGroups() { return error }
NodeGroupRequired(c) == noNodeGroup(c)

\* an empty Namespace becomes the default of the add-on
defaultNamespace(c, comp, ns) ==
    [c EXCEPT ![comp].Namespace = IF @ = <<>> THEN ns ELSE @]

\* the validate function of an add-on that only needs a node group and a
\* namespace: NLBHelloWorld, ALB2048, JobPi, JobEcho, CronJob, Secrets, AppMesh
validateAddOn(c, comp, ns) ==
    IF ~IsEnabled(c, comp) THEN Valid(c)
    ELSE IF NodeGroupRequired(c) THEN Invalid(c, "Enable true but no node group is enabled")
    ELSE Valid(defaultNamespace(c, comp, ns))

validateAddOnNLBHelloWorld(c) ==
    validateAddOn(c, "AddOnNLBHelloWorld", c.Name \o <<"-", "n", "l", "b", "-", "h", "e", "l", "l", "o", "-", "w", "o", "r", "l", "d">>)

validateAddOnALB2048(c) == validateAddOn(c, "AddOnALB2048", c.Name \o <<"-", "a", "l", "b", "-", "2", "0", "4", "8">>)

validateAddOnJobPi(c) == validateAddOn(c, "AddOnJobPi", c.Name \o <<"-", "j", "o", "b", "-", "p", "e", "r", "l">>)

validateAddOnJobEcho(c) == validateAddOn(c, "AddOnJobEcho", c.Name \o <<"-", "j", "o", "b", "-", "e", "c", "h", "o">>)

validateAddOnCronJob(c) == validateAddOn(c, "AddOnCronJob", c.Name \o <<"-", "c", "r", "o", "n", "j", "o", "b">>)

validateAddOnSecrets(c) == validateAddOn(c, "AddOnSecrets", c.Name \o <<"-", "s", "e", "c", "r", "e", "t", "s">>)

validateAddOnAppMesh(c) == validateAddOn(c, "AddOnAppMesh", <<"a", "p", "p", "m", "e", "s", "h", "-", "s", "y", "s", "t", "e", "m">>)

validateAddOnIRSA(c) ==
    IF ~IsEnabled(c, "AddOnIRSA") THEN Valid(c)
    ELSE IF NodeGroupRequired(c) THEN Invalid(c, "Enable true but no node group is enabled")
    ELSE IF OlderThanMin(c.Parameters.VersionValue)
      THEN Invalid(c, "Version not supported for AddOnIRSA")
    ELSE IF c.S3BucketName = <<>> THEN Invalid(c, "AddOnIRSA requires S3 bucket")
    ELSE Valid([defaultNamespace(c, "AddOnIRSA", c.Name \o <<"-", "i", "r", "s", "a">>)
                   EXCEPT !.AddOnIRSA.RoleName =
                              IF @ = <<>> THEN c.Name \o <<"-", "r", "o", "l", "e", "-", "i", "r", "s", "a">> ELSE @])

\* a letter or a digit
isAlnum(x) == x \in Digits \/ LowerChar(x) # x \/ UpperChar(x) # x

\* secretRegex.ReplaceAllString(str, ""): only letters and numbers stay
stripNonAlnum(str) == SelectSeq(str, isAlnum)

validateAddOnFargate(c) ==
    IF ~IsEnabled(c, "AddOnFargate") THEN Valid(c)
    ELSE IF NodeGroupRequired(c) THEN Invalid(c, "Enable true but no node group is enabled")
    ELSE IF OlderThanMin(c.Parameters.VersionValue)
      THEN Invalid(c, "Version not supported for AddOnFargate")
    ELSE validateRole(
             [defaultNamespace(c, "AddOnFargate", c.Name \o <<"-", "f", "a", "r", "g", "a", "t", "e">>)
                 EXCEPT !.AddOnFargate.SecretName =
                            ToLower(stripNonAlnum(
                                IF @ = <<>> THEN c.Name \o <<"a", "d", "d", "o", "n", "f", "a", "r", "g", "a", "t", "e", "s", "e", "c", "r", "e", "t">> ELSE @))],
             "AddOnFargate", <<"-", "r", "o", "l", "e", "-", "f", "a", "r", "g", "a", "t", "e">>, FALSE)

\* ---- ValidateAndSetDefaults

\* the validate functions in the order ValidateAndSetDefaults calls them; the
\* two orders are those the ranges over the ASGs and the MNGs take
validateAll(c, ngOrder, mngOrder) ==
    LET r1 == Then(validateConfig(c), validateParameters)
        r2 == IF r1.err # "nil" THEN r1 ELSE validateAddOnNodeGroups(r1.cfg, ngOrder)
        r3 == IF r2.err # "nil" THEN r2 ELSE validateAddOnManagedNodeGroups(r2.cfg, mngOrder)
    IN Then(Then(Then(Then(Then(Then(Then(Then(Then(r3,
           validateAddOnNLBHelloWorld), validateAddOnALB2048), validateAddOnJobPi),
           validateAddOnJobEcho), validateAddOnCronJob), validateAddOnSecrets),
           validateAddOnIRSA), validateAddOnFargate), validateAddOnAppMesh)

\* func (cfg *Config) ValidateAndSetDefaults() error
ValidateAndSetDefaults ==
    \E ngOrder \in Orders(config.AddOnNodeGroups.ASGs),
       mngOrder \in Orders(config.AddOnManagedNodeGroups.MNGs) :
        /\ config0' = config
        /\ validated' = TRUE
        /\ config' = validateAll(config, ngOrder, mngOrder).cfg
        /\ valErr' = validateAll(config, ngOrder, mngOrder).err
        /\ UNCHANGED nonValidateVars

NextValidate == ValidateAndSetDefaults

\* ---- configurations

\* an ASG or MNG as NewDefault makes it, of the name and the size
Group(name, size) ==
    [Name |-> name, RemoteAccessUserName |-> <<"e", "c", "2", "-", "u", "s", "e", "r">>, AMIType |-> AMITypesAl2X8664,
     ASGMinSize |-> Int64(0, size), ASGMaxSize |-> Int64(0, size),
     ASGDesiredCapacity |-> Int64(0, size),
     InstanceTypes |-> <<DefaultNodeInstanceTypeCPU>>, VolumeSize |-> DefaultNodeVolumeSize]

\* the one-entry map of the name
OneGroup(name, size) == [k \in {name} |-> Group(name, size)]

EmptyRole ==
    [RoleCreate |-> TRUE, RoleName |-> <<>>, RoleARN |-> <<>>,
     RoleManagedPolicyARNs |-> <<>>, RoleServicePrincipals |-> <<>>]

AddOn == [Enable |-> FALSE, Namespace |-> <<>>]

\* the configuration NewDefault returns for the cluster name
DefaultConfigOf(name) ==
    [Region |-> <<"u", "s", "-", "w", "e", "s", "t", "-", "2">>,
     Name |-> name,
     LogOutputs |-> <<<<"s", "t", "d", "e", "r", "r">>>>,
     ConfigPath |-> <<>>,
     KubectlCommandsOutputPath |-> <<>>,
     KubeConfigPath |-> <<>>,
     S3BucketCreate |-> FALSE,
     S3BucketName |-> <<>>,
     S3BucketLifecycleExpirationDays |-> 0,
     Parameters |-> EmptyRole @@ [Version |-> <<"1", ".", "1", "5">>, VersionValue |-> ZeroFloat],
     AddOnNodeGroups |->
         EmptyRole @@ [Enable |-> FALSE, ASGs |-> OneGroup(name \o <<"-", "n", "g", "-", "a", "s", "g", "-", "c", "p", "u">>, 1)],
     AddOnManagedNodeGroups |->
         EmptyRole @@ [Enable |-> FALSE, MNGs |-> OneGroup(name \o <<"-", "m", "n", "g", "-", "c", "p", "u">>, 2)],
     AddOnNLBHelloWorld |-> AddOn @@ [DeploymentReplicas |-> 3],
     AddOnALB2048 |-> AddOn @@ [DeploymentReplicasALB |-> 3, DeploymentReplicas2048 |-> 3],
     AddOnJobPi |-> AddOn,
     AddOnJobEcho |-> AddOn,
     AddOnCronJob |-> AddOn,
     AddOnSecrets |-> AddOn,
     AddOnIRSA |-> AddOn @@ [RoleName |-> <<>>],
     AddOnFargate |-> EmptyRole @@ AddOn @@ [SecretName |-> <<>>],
     AddOnAppMesh |-> AddOn]

DefaultCfg == DefaultConfigOf(<<"e", "k", "s">>)

\* the components with an Enable flag, and those that need a node group
NodeGroupAddOns == {"AddOnNodeGroups", "AddOnManagedNodeGroups"}
NodeAddOns ==
    {"AddOnNLBHelloWorld", "AddOnALB2048", "AddOnJobPi", "AddOnJobEcho", "AddOnCronJob",
     "AddOnSecrets", "AddOnIRSA", "AddOnFargate", "AddOnAppMesh"}

\* c with exactly the components of on enabled
Enabling(c, on) ==
    [f \in DOMAIN c |->
        IF f \in NodeGroupAddOns \cup NodeAddOns
          THEN [c[f] EXCEPT !.Enable = f \in on]
          ELSE c[f]]

\* configurations that differ in the add-ons they enable
EnableConfigs ==
    {Enabling([DefaultCfg EXCEPT !.S3BucketName = <<"b">>], on) :
         on \in SUBSET (NodeGroupAddOns \cup NodeAddOns)}

\* configurations that differ in the role of one component
RoleComponents == {"Parameters", "AddOnNodeGroups", "AddOnManagedNodeGroups", "AddOnFargate"}

Roles ==
    [RoleCreate : BOOLEAN,
     RoleName : {<<>>, <<"r">>},
     RoleARN : {<<>>, <<"a", "r", "n", ":", "a", "w", "s", ":", "i", "a", "m", ":", ":", "1", "2", "3", ":", "r", "o", "l", "e", "/", "r", "o", "l", "e", "-", "e", "k", "s">>, <<"r", "o", "l", "e", "-", "e", "k", "s">>},
     RoleManagedPolicyARNs : {<<>>, <<<<"p">>>>},
     RoleServicePrincipals : {<<>>, <<<<"e", "c", "2", ".", "a", "m", "a", "z", "o", "n", "a", "w", "s", ".", "c", "o", "m">>>>, <<<<"x">>>>}]

WithRole(c, comp, r) ==
    [c EXCEPT ![comp].RoleCreate = r.RoleCreate,
              ![comp].RoleName = r.RoleName,
              ![comp].RoleARN = r.RoleARN,
              ![comp].RoleManagedPolicyARNs = r.RoleManagedPolicyARNs,
              ![comp].RoleServicePrincipals = r.RoleServicePrincipals]

RoleConfigs ==
    {WithRole(Enabling(DefaultCfg, on), comp, r) :
         comp \in RoleComponents, r \in Roles,
         on \in {{"AddOnNodeGroups", "AddOnFargate"}, {"AddOnManagedNodeGroups"}}}

\* configurations that differ in the version
Versions ==
    {<<>>, <<"x">>, <<"1">>, <<"1", ".", "2">>, <<"1", ".", "9">>, <<"1", ".", "1", "3">>, <<"1", ".", "1", "4">>, <<"1", ".", "1", "5">>, <<"1", ".", "2", "0">>, <<"1", ".", "1", "0", "0">>, <<"2", ".", "0">>}

VersionConfigs ==
    {[Enabling(DefaultCfg, on) EXCEPT !.Parameters.Version = v,
                                      !.Parameters.VersionValue = vv,
                                      !.S3BucketName = <<"b">>] :
         v \in Versions, vv \in {ZeroFloat, [num |-> 115, den |-> 100]},
         on \in SUBSET {"AddOnNodeGroups", "AddOnManagedNodeGroups", "AddOnIRSA", "AddOnFargate"}}

\* configurations that differ in the node groups: the sizes an entry may have,
\* the limit on the size of a group being limit; the last two lie outside the
\* int32 range
GroupSizes(limit) ==
    {<<Int64(0, s[1]), Int64(0, s[2]), Int64(0, s[3])>> :
         s \in {<<1, 1, 1>>, <<0, limit, limit>>, <<0, limit, 1>>, <<2, 1, 1>>,
                <<0, 1, 2>>, <<0, limit + 1, 1>>, <<-1, 1, -1>>}}
    \cup {<<Int64(0, 0), Int64(0, limit), Int64(-1, 5)>>,
          <<Int64(0, 0), Int64(0, limit), Int64(1, 0)>>}

\* the entries a map may hold under the key k
GroupEntries(k, limit) ==
    {[Group(k, 1) EXCEPT !.ASGMinSize = s[1], !.ASGMaxSize = s[2], !.ASGDesiredCapacity = s[3]] :
         s \in GroupSizes(limit)}
    \cup {[Group(k, 1) EXCEPT !.Name = n] : n \in {<<>>, <<"o", "t", "h", "e", "r">>}}
    \cup {[Group(k, 1) EXCEPT !.InstanceTypes = t] :
              t \in {<<>>, <<<<"m", "3", ".", "l", "a", "r", "g", "e">>>>,
                     <<<<"a">>, <<"b">>, <<"c">>, <<"d">>>>, <<<<"a">>, <<"b">>, <<"c">>, <<"d">>, <<"e">>>>}}
    \cup {[Group(k, 1) EXCEPT !.AMIType = a] : a \in {AMITypeBottleRocketCPU, "unknown"}}
    \cup {[Group(k, 1) EXCEPT !.RemoteAccessUserName = u, !.VolumeSize = 0] :
              u \in {<<>>, <<"r", "o", "o", "t">>}}

GroupKeys == <<<<"a">>, <<"b">>, <<"c">>, <<"d">>>>

\* the maps of n entries that pass, under the first keys
RECURSIVE PassingMaps(_, _)
PassingMaps(n, limit) ==
    IF n = 0 THEN {<<>>}
    ELSE {m @@ [x \in {GroupKeys[n]} |-> Group(GroupKeys[n], size)] :
              m \in PassingMaps(n - 1, limit), size \in {1, limit}}

\* the maps of at most n + 1 entries under the first keys: passing entries
\* and one entry of any kind
GroupMaps(n, limit) ==
    {<<>>} \cup UNION {{m @@ [x \in {GroupKeys[j + 1]} |-> e] :
                            m \in PassingMaps(j, limit),
                            e \in GroupEntries(GroupKeys[j + 1], limit)} : j \in 0..n}

\* the load-balancer add-ons enabled or not, with few or many replicas
Balancers ==
    {[DefaultCfg EXCEPT !.AddOnNLBHelloWorld.Enable = n,
                        !.AddOnNLBHelloWorld.DeploymentReplicas = r,
                        !.AddOnALB2048.Enable = a,
                        !.AddOnALB2048.DeploymentReplicasALB = r,
                        !.AddOnALB2048.DeploymentReplicas2048 = 4 - r] :
         n \in BOOLEAN, a \in BOOLEAN, r \in {1, 3}}

\* the other node-group add-on: disabled, or enabled with one group under a
\* key of the maps or under a key of its own
OtherGroups ==
    {[Enable |-> FALSE, key |-> GroupKeys[1]], [Enable |-> TRUE, key |-> GroupKeys[1]],
     [Enable |-> TRUE, key |-> <<"o">>]}

NodeGroupConfigs ==
    {[c EXCEPT !.AddOnNodeGroups.Enable = TRUE,
               !.AddOnNodeGroups.ASGs = m,
               !.AddOnManagedNodeGroups.Enable = o.Enable,
               !.AddOnManagedNodeGroups.MNGs = OneGroup(o.key, MNGMaxLimit)] :
         c \in Balancers, m \in GroupMaps(NGsMaxLimit, NGMaxLimit), o \in OtherGroups}

ManagedNodeGroupConfigs ==
    {[c EXCEPT !.AddOnManagedNodeGroups.Enable = TRUE,
               !.AddOnManagedNodeGroups.MNGs = m,
               !.AddOnNodeGroups.Enable = o.Enable,
               !.AddOnNodeGroups.ASGs = OneGroup(o.key, NGMaxLimit)] :
         c \in Balancers, m \in GroupMaps(MNGsMaxLimit, MNGMaxLimit), o \in OtherGroups}

\* configurations that differ in the fields validateConfig and
\* validateAddOnFargate default
FieldConfigs ==
    {[Enabling(DefaultCfg, on) EXCEPT
          !.Name = f.Name, !.LogOutputs = f.LogOutputs, !.ConfigPath = f.ConfigPath,
          !.KubectlCommandsOutputPath = f.KubectlCommandsOutputPath,
          !.S3BucketCreate = f.S3BucketCreate,
          !.S3BucketLifecycleExpirationDays = f.S3BucketLifecycleExpirationDays,
          !.AddOnFargate.SecretName = f.SecretName,
          !.AddOnFargate.Namespace = f.Namespace] :
         on \in {{}, {"AddOnNodeGroups", "AddOnFargate"}},
         f \in [Name : {<<>>, <<"e", "k", "s">>, <<"E", "k", "s">>},
                LogOutputs : {<<>>, <<<<"s", "t", "d", "e", "r", "r">>>>, <<<<"a", ".", "l", "o", "g">>>>, <<<<"s", "t", "d", "o", "u", "t">>, <<"a", ".", "l", "o", "g">>>>},
                ConfigPath : {<<>>, <<"/", "c", ".", "y", "a", "m", "l">>},
                KubectlCommandsOutputPath : {<<>>, <<"/", "k">>, <<"/", "k", ".", "s", "h">>},
                S3BucketCreate : BOOLEAN,
                S3BucketLifecycleExpirationDays : {0, 1, 5},
                SecretName : {<<>>, <<"M", "y", "-", "S", "e", "c", "r", "e", "t">>, <<"s">>},
                Namespace : {<<>>, <<"n", "s">>}]}

InitValidate ==
    /\ config \in EnableConfigs \cup RoleConfigs \cup VersionConfigs \cup NodeGroupConfigs
                     \cup ManagedNodeGroupConfigs \cup FieldConfigs
    /\ valErr = "none"
    /\ validated = FALSE
    /\ config0 = config

\* no configuration is loaded
IdleValidate ==
    /\ config = <<>>
    /\ valErr = "none"
    /\ validated = FALSE
    /\ config0 = config

(***************************************************************************)
(* Part V.  eksconfig: DefaultConfig and NewDefault                        *)
(* A Config holds its value fields and, for each sub-object, a pointer; the *)
(* sub-objects and the ASGs / MNGs maps live in a heap.                     *)
(***************************************************************************)

\* the pointer fields of the Config the model follows
SubObjects ==
    {"Parameters", "AddOnNodeGroups", "AddOnManagedNodeGroups"}

\* the nil map
NilMap == 0

\* var DefaultConfig = Config{...}: every &T{...} of the literal allocates one
\* object, named here after its field
InitDefault ==
    /\ DefaultConfig =
           [Name |-> <<>>,
            Region |-> <<"u", "s", "-", "w", "e", "s", "t", "-", "2">>,
            Parameters |-> "Parameters",
            AddOnNodeGroups |-> "AddOnNodeGroups",
            AddOnManagedNodeGroups |-> "AddOnManagedNodeGroups"]
    /\ objects =
           [a \in SubObjects |->
               CASE a = "Parameters" -> [RoleCreate |-> TRUE, Version |-> <<"1", ".", "1", "5">>]
                 [] a = "AddOnNodeGroups" -> [Enable |-> FALSE, ASGs |-> NilMap]
                 [] a = "AddOnManagedNodeGroups" -> [Enable |-> FALSE, MNGs |-> NilMap]]
    /\ groupMaps = <<>>
    /\ returned = <<>>
    /\ lastCall = [kind |-> "none", i |-> 0]

\* os.Getenv(EnvironmentVariablePrefix + "NAME")
NameEnvs == {<<>>, <<"c", "1">>}

\* fmt.Sprintf("eks-%s-%s", getTS()[:10], randString(12))
GeneratedNames == {<<"e", "k", "s", "-", "a">>}

\* func NewDefault() *Config
NewDefault ==
    /\ Len(returned) < MaxConfigs
    /\ \E name \in NameEnvs, gen \in GeneratedNames :
         LET vv == [DefaultConfig EXCEPT !.Name = IF name # <<>> THEN name ELSE gen]
             asgs == OneGroup(vv.Name \o <<"-", "n", "g", "-", "a", "s", "g", "-", "c", "p", "u">>, 1)
             mngs == OneGroup(vv.Name \o <<"-", "m", "n", "g", "-", "c", "p", "u">>, 2)
         IN /\ groupMaps' = groupMaps \o <<asgs, mngs>>
            /\ objects' = [objects EXCEPT ![vv.AddOnNodeGroups].ASGs = Len(groupMaps) + 1,
                                          ![vv.AddOnManagedNodeGroups].MNGs = Len(groupMaps) + 2]
            /\ returned' = Append(returned, vv)
            /\ lastCall' = [kind |-> "NewDefault", i |-> Len(returned) + 1]
    /\ UNCHANGED DefaultConfig
    /\ UNCHANGED nonDefaultVars

\* cfg.Region = v, on the i-th returned config
SetRegion ==
    /\ \E i \in 1..Len(returned), v \in {<<"u", "s", "-", "w", "e", "s", "t", "-", "2">>, <<"u", "s", "-", "e", "a", "s", "t", "-", "1">>} :
         /\ returned' = [returned EXCEPT ![i].Region = v]
         /\ lastCall' = [kind |-> "Modify", i |-> i]
    /\ UNCHANGED <<DefaultConfig, objects, groupMaps>>
    /\ UNCHANGED nonDefaultVars

\* cfg.Parameters.Version = v, on the i-th returned config
SetVersion ==
    /\ \E i \in 1..Len(returned), v \in {<<"1", ".", "1", "5">>, <<"1", ".", "1", "6">>} :
         /\ objects' = [objects EXCEPT ![returned[i].Parameters].Version = v]
         /\ lastCall' = [kind |-> "Modify", i |-> i]
    /\ UNCHANGED <<DefaultConfig, groupMaps, returned>>
    /\ UNCHANGED nonDefaultVars

\* cfg.AddOn....Enable = b, on the i-th returned config
SetEnable ==
    /\ \E i \in 1..Len(returned), o \in SubObjects \ {"Parameters"}, b \in BOOLEAN :
         /\ objects' = [objects EXCEPT ![returned[i][o]].Enable = b]
         /\ lastCall' = [kind |-> "Modify", i |-> i]
    /\ UNCHANGED <<DefaultConfig, groupMaps, returned>>
    /\ UNCHANGED nonDefaultVars

\* cfg.AddOnNodeGroups.ASGs[k] = v (and the MNGs likewise), on the i-th
\* returned config
PutGroup ==
    /\ \E i \in 1..Len(returned), k \in {<<"g">>}, size \in {3} :
         \E m \in {objects[returned[i].AddOnNodeGroups].ASGs,
                   objects[returned[i].AddOnManagedNodeGroups].MNGs} :
            /\ groupMaps' =
                   [groupMaps EXCEPT ![m] =
                        [x \in DOMAIN groupMaps[m] \cup {k} |->
                            IF x = k THEN Group(k, size) ELSE groupMaps[m][x]]]
            /\ lastCall' = [kind |-> "Modify", i |-> i]
    /\ UNCHANGED <<DefaultConfig, objects, returned>>
    /\ UNCHANGED nonDefaultVars

NextDefault == NewDefault \/ SetRegion \/ SetVersion \/ SetEnable \/ PutGroup

\* ---- what a Config says, its pointers and maps followed

mapOf(m) == IF m = NilMap THEN <<>> ELSE groupMaps[m]

Deref(a) ==
    IF a = "AddOnNodeGroups" THEN [objects[a] EXCEPT !.ASGs = mapOf(@)]
    ELSE IF a = "AddOnManagedNodeGroups" THEN [objects[a] EXCEPT !.MNGs = mapOf(@)]
    ELSE objects[a]

Deep(c) == [f \in DOMAIN c |-> IF f \in SubObjects THEN Deref(c[f]) ELSE c[f]]

DeepDefault == Deep(DefaultConfig)

DeepReturned(j) == Deep(returned[j])

(***************************************************************************)
(* Part VI.  fargate: createProfile, the caller of Poll                    *)
(***************************************************************************)

\* errors createProfile makes itself, and the error of EKSConfig.Sync
EmptyRoleARNError == [src |-> "empty AddOnFargate.RoleARN", code |-> "", nf |-> FALSE]
EmptySubnetsError == [src |-> "empty Parameters.PrivateSubnetIDs", code |-> "", nf |-> FALSE]
RequestError == [src |-> "request", code |-> "", nf |-> FALSE]
SyncError == [src |-> "sync", code |-> "", nf |-> FALSE]

NoProfRet == [src |-> "none", code |-> "", nf |-> FALSE]

\* createProfile is not called
IdleProfile ==
    /\ profPc = "idle"
    /\ profRet = NoProfRet
    /\ activeBefore = FALSE

\* createProfile is called: the context and Poll's goroutine do not exist yet
InitProfile ==
    /\ horizon = MaxProfileDescribes
    /\ desiredStatus = "ACTIVE"
    /\ wait = PollWait
    /\ initialWait = PollInitialWait
    /\ ctxErr = "none"
    /\ pc = "none"
    /\ stopped = FALSE
    /\ waitDur = 0
    /\ first = TRUE
    /\ pending = NoItem
    /\ next = "loop"
    /\ ch = <<>>
    /\ closed = FALSE
    /\ ndesc = 0
    /\ lastResp = NoResp
    /\ lastWait = 0
    /\ lastSent = NoItem
    /\ closes = 0
    /\ sentAfterClose = FALSE
    /\ desiredSeen = FALSE
    /\ nonTerm = 0
    /\ initialSleeps = 0
    /\ sleptFor = 0
    /\ profPc = "start"
    /\ profRet = NoProfRet
    /\ activeBefore = FALSE

KeepPoll ==
    UNCHANGED <<horizon, desiredStatus, wait, initialWait, stopped, waitDur,
                first, pending, next, closed>>

KeepOthers == UNCHANGED <<testerVars, envVars, validateVars, defaultVars, ssmVars>>

\* return err
ProfileReturn(e) ==
    /\ profRet' = e
    /\ profPc' = "done"
    /\ activeBefore' = desiredSeen

\* cancel() of the context: a context that has expired keeps its error
Cancelled(e) == IF e = "nil" THEN "context canceled" ELSE e

\* the checks of the config, req.Send(), context.WithTimeout and Poll(...),
\* which starts the goroutine
CreateProfileBegin ==
    /\ profPc = "start"
    /\ \E roleARN \in BOOLEAN, subnets \in BOOLEAN, sendErr \in BOOLEAN :
         IF ~roleARN THEN ProfileReturn(EmptyRoleARNError) /\ UNCHANGED <<ctxErr, pc>>
         ELSE IF ~subnets THEN ProfileReturn(EmptySubnetsError) /\ UNCHANGED <<ctxErr, pc>>
         ELSE IF sendErr THEN ProfileReturn(RequestError) /\ UNCHANGED <<ctxErr, pc>>
         ELSE /\ profPc' = "range"
              /\ ctxErr' = "nil"
              /\ pc' = "loop"
              /\ UNCHANGED <<profRet, activeBefore>>
    /\ UNCHANGED ch
    /\ KeepPoll /\ KeepHistory /\ KeepOthers

\* for sv := range ch { if sv.Error != nil { cancel(); return sv.Error } }
ProfileReceive ==
    /\ profPc = "range"
    /\ ch # <<>>
    /\ ch' = Tail(ch)
    /\ IF Head(ch).Error # NilErr
         THEN /\ ctxErr' = Cancelled(ctxErr)
              /\ ProfileReturn(Head(ch).Error)
         ELSE UNCHANGED <<ctxErr, profPc, profRet, activeBefore>>
    /\ UNCHANGED pc
    /\ KeepPoll /\ KeepHistory /\ KeepOthers

\* the range loop ends at the closed and drained channel: cancel(); return Sync()
ProfileRangeEnd ==
    /\ profPc = "range"
    /\ ch = <<>>
    /\ closed
    /\ ctxErr' = Cancelled(ctxErr)
    /\ \E e \in {NilErr, SyncError} : ProfileReturn(e)
    /\ UNCHANGED <<ch, pc>>
    /\ KeepPoll /\ KeepHistory /\ KeepOthers

NextProfile ==
    \/ CreateProfileBegin
    \/ ProfileReceive
    \/ ProfileRangeEnd
    \/ StopClose
    \/ CtxExpire
    \/ PollStep

(***************************************************************************)
(* Part VII.  ec2: createSSM                                               *)
(***************************************************************************)

\* the zero value of awscfn.StackStatus
NoSt == [Stack |-> "nil", Error |-> "nil"]

\* createSSM is not called
IdleSSM ==
    /\ ASGs = <<>>
    /\ ssmPc = "idle"
    /\ todo = {}
    /\ cur = ""
    /\ st = NoSt
    /\ ssmRet = "none"
    /\ stacks = <<>>
    /\ items = 0
    /\ docErr = FALSE
    /\ sent = <<>>
    /\ requested = <<>>
    /\ answered = <<>>

\* the ASGs of the configuration, named 1..n; Instances is filled by the ASG
\* creation that precedes createSSM
ASGConfigs ==
    UNION { [1..n -> [SSMDocumentCreate : BOOLEAN,
                      SSMDocumentName : {"", "doc"},
                      Instances : {{}, {"i-1"}},
                      SSMDocumentCFNStackID : {""},
                      SSMDocumentCommandID : {""}]] : n \in 1..MaxASGs }

\* createSSM is called
InitSSM ==
    /\ ASGs \in ASGConfigs
    /\ ssmPc = "start"
    /\ todo = {}
    /\ cur = ""
    /\ st = NoSt
    /\ ssmRet = "none"
    /\ stacks = [a \in DOMAIN ASGs |-> "none"]
    /\ items = 0
    /\ docErr = FALSE
    /\ sent = <<>>
    /\ requested = <<>>
    /\ answered = <<>>

\* f with the value v at the key k, k in its domain or not
Put(f, k, v) == [x \in DOMAIN f \cup {k} |-> IF x = k THEN v ELSE f[x]]

\* ts.cfg.Sync()
SyncResults == {"nil", "sync"}

\* return err from createSSMDocument, which createSSM returns
DocumentReturn(e) ==
    /\ ssmRet' = e
    /\ ssmPc' = "done"
    /\ docErr' = TRUE

\* return err from sendSSMDocumentCommand or the final Sync
SSMReturn(e) ==
    /\ ssmRet' = e
    /\ ssmPc' = "done"
    /\ docErr' = docErr

\* createSSM calls createSSMDocument, whose range loop starts
SSMBegin ==
    /\ ssmPc = "start"
    /\ ssmPc' = "doc"
    /\ todo' = DOMAIN ASGs
    /\ UNCHANGED <<ASGs, cur, st, ssmRet, stacks, items, docErr, sent, requested,
                   answered>>
    /\ UNCHANGED nonSSMVars

\* if !cur.SSMDocumentCreate { continue }
DocSkip ==
    /\ ssmPc = "doc"
    /\ \E a \in todo :
         /\ ~ASGs[a].SSMDocumentCreate
         /\ todo' = todo \ {a}
    /\ UNCHANGED <<ASGs, ssmPc, cur, st, ssmRet, stacks, items, docErr, sent,
                   requested, answered>>
    /\ UNCHANGED nonSSMVars

\* ts.cfnAPI.CreateStack(stackInput), the stack id stored, awscfn.Poll started
DocCreateStack ==
    /\ ssmPc = "doc"
    /\ \E a \in todo, err \in BOOLEAN :
         /\ ASGs[a].SSMDocumentCreate
         /\ todo' = todo \ {a}
         /\ IF err
              THEN /\ DocumentReturn("api")
                   /\ UNCHANGED <<ASGs, cur, st, stacks, items>>
              ELSE /\ ASGs' = [ASGs EXCEPT ![a].SSMDocumentCFNStackID = "stack"]
                   /\ stacks' = [stacks EXCEPT ![a] = "CREATE_IN_PROGRESS"]
                   /\ cur' = a
                   /\ st' = NoSt
                   /\ items' = 0
                   /\ ssmPc' = "poll"
                   /\ UNCHANGED <<ssmRet, docErr>>
    /\ UNCHANGED <<sent, requested, answered>>
    /\ UNCHANGED nonSSMVars

\* CloudFormation finishes the creation of a stack, one way or the other
StackProgress ==
    /\ \E a \in DOMAIN stacks, s \in {"CREATE_COMPLETE", "CREATE_FAILED"} :
         /\ stacks[a] = "CREATE_IN_PROGRESS"
         /\ stacks' = [stacks EXCEPT ![a] = s]
    /\ UNCHANGED <<ASGs, ssmPc, todo, cur, st, ssmRet, items, docErr, sent,
                   requested, answered>>
    /\ UNCHANGED nonSSMVars

\* the Outputs of a stack made from TemplateSSMDocument: the name the stack was
\* asked for or one CloudFormation generated, under the key of the template
\* or under another one
StackOutputs(name) ==
    { <<>> } \cup { <<[OutputKey |-> k, OutputValue |-> v]>> :
                       k \in {"SSMDocumentName", "Other"}, v \in {name, "generated"} }

\* the items awscfn.Poll sends before its last one: the stack still in
\* progress, or an error it retries
ProgressItems(status) ==
    { [Stack |-> "nil", Error |-> "describe"] }
    \cup (IF status = "CREATE_IN_PROGRESS"
            THEN { [Stack |-> <<>>, Error |-> "nil"] } ELSE {})

\* the last item awscfn.Poll sends before it closes the channel: the stack in
\* the desired status, or an error (a failed stack, the context, a stop, an
\* API error)
LastItems(status, name) ==
    { [Stack |-> "nil", Error |-> e] : e \in {"context", "stopped", "describe"} }
    \cup (IF status = "CREATE_FAILED"
            THEN { [Stack |-> <<>>, Error |-> "unexpected status"] } ELSE {})
    \cup (IF status = "CREATE_COMPLETE"
            THEN { [Stack |-> o, Error |-> "nil"] : o \in StackOutputs(name) } ELSE {})

\* for st = range ch { ... }: an item that is not the last one
DocReceive ==
    /\ ssmPc = "poll"
    /\ items < MaxPollItems
    /\ \E i \in ProgressItems(stacks[cur]) : st' = i
    /\ items' = items + 1
    /\ UNCHANGED <<ASGs, ssmPc, todo, cur, ssmRet, stacks, docErr, sent, requested,
                   answered>>
    /\ UNCHANGED nonSSMVars

\* for st = range ch { ... }: the last item, after which the channel is closed
DocReceiveLast ==
    /\ ssmPc = "poll"
    /\ \E i \in LastItems(stacks[cur], ASGs[cur].SSMDocumentName) : st' = i
    /\ ssmPc' = "polled"
    /\ UNCHANGED <<ASGs, todo, cur, ssmRet, stacks, items, docErr, sent, requested,
                   answered>>
    /\ UNCHANGED nonSSMVars

DocumentFailedNever(s) == FALSE

\* if st.Error != nil { return st.Error }
DocumentFailed(s) == s.Error # "nil"

\* cancel(); the test of st.Error; the loop over st.Stack.Outputs
DocRangeEnd ==
    /\ ssmPc = "polled"
    /\ IF DocumentFailed(st)
         THEN /\ DocumentReturn(st.Error)
              /\ UNCHANGED ASGs
         ELSE LET outs == IF st.Stack = "nil" THEN <<>> ELSE st.Stack
              IN IF \E i \in 1..Len(outs) : outs[i].OutputKey # "SSMDocumentName"
                   THEN /\ DocumentReturn("unexpected OutputKey")
                        /\ UNCHANGED ASGs
                   ELSE /\ ASGs' = IF outs = <<>> THEN ASGs
                                   ELSE [ASGs EXCEPT ![cur].SSMDocumentName =
                                                         outs[Len(outs)].OutputValue]
                        /\ ssmPc' = "doc"
                        /\ UNCHANGED <<ssmRet, docErr>>
    /\ UNCHANGED <<todo, cur, st, stacks, items, sent, requested, answered>>
    /\ UNCHANGED nonSSMVars

\* createSSMDocument: return ts.cfg.Sync(); createSSM goes on to
\* sendSSMDocumentCommand when that is nil
DocEnd ==
    /\ ssmPc = "doc"
    /\ todo = {}
    /\ \E e \in SyncResults :
         IF e # "nil"
           THEN DocumentReturn(e) /\ UNCHANGED todo
           ELSE /\ ssmPc' = "send"
                /\ todo' = DOMAIN ASGs
                /\ UNCHANGED <<ssmRet, docErr>>
    /\ UNCHANGED <<ASGs, cur, st, stacks, items, sent, requested, answered>>
    /\ UNCHANGED nonSSMVars

\* if cur.SSMDocumentName == "" { continue }
SendSkip ==
    /\ ssmPc = "send"
    /\ \E a \in todo :
         /\ ASGs[a].SSMDocumentName = ""
         /\ todo' = todo \ {a}
    /\ UNCHANGED <<ASGs, ssmPc, cur, st, ssmRet, stacks, items, docErr, sent,
                   requested, answered>>
    /\ UNCHANGED nonSSMVars

\* if len(ids) == 0 { return fmt.Errorf("no instance found ...") }
SendNoInstance ==
    /\ ssmPc = "send"
    /\ \E a \in todo :
         /\ ASGs[a].SSMDocumentName # ""
         /\ ASGs[a].Instances = {}
         /\ todo' = todo \ {a}
    /\ SSMReturn("no instance found")
    /\ UNCHANGED <<ASGs, cur, st, stacks, items, sent, requested, answered>>
    /\ UNCHANGED nonSSMVars

\* ts.ssmAPI.SendCommand(ssmInput), the comparison of the document names and
\* the command id stored
SendCommand ==
    /\ ssmPc = "send"
    /\ \E a \in todo, err \in BOOLEAN, docName \in {"doc", "generated", "other"} :
         /\ ASGs[a].SSMDocumentName # ""
         /\ ASGs[a].Instances # {}
         /\ todo' = todo \ {a}
         /\ sent' = Append(sent, a)
         /\ requested' = Put(requested, a, ASGs[a].SSMDocumentName)
         /\ IF err
              THEN /\ SSMReturn("api")
                   /\ UNCHANGED <<ASGs, answered>>
              ELSE /\ answered' = Put(answered, a, docName)
                   /\ IF docName # ASGs[a].SSMDocumentName
                        THEN /\ SSMReturn("SSM Document Name expected")
                             /\ UNCHANGED ASGs
                        ELSE /\ ASGs' = [ASGs EXCEPT ![a].SSMDocumentCommandID = "id"]
                             /\ UNCHANGED <<ssmPc, ssmRet, docErr>>
    /\ UNCHANGED <<cur, st, stacks, items>>
    /\ UNCHANGED nonSSMVars

\* sendSSMDocumentCommand: return ts.cfg.Sync(); createSSM: return ts.cfg.Sync()
SendEnd ==
    /\ ssmPc = "send"
    /\ todo = {}
    /\ \E e \in SyncResults : SSMReturn(e)
    /\ UNCHANGED <<ASGs, todo, cur, st, stacks, items, sent, requested, answered>>
    /\ UNCHANGED nonSSMVars

NextSSM ==
    \/ SSMBegin
    \/ DocSkip
    \/ DocCreateStack
    \/ StackProgress
    \/ DocReceive
    \/ DocReceiveLast
    \/ DocRangeEnd
    \/ DocEnd
    \/ SendSkip
    \/ SendNoInstance
    \/ SendCommand
    \/ SendEnd

(***************************************************************************)
(* Specifications.                                                         *)
(***************************************************************************)

\* a tester that is not called
IdleTesters == ts = "fargate" /\ Created = FALSE /\ InitTesterState

\* no environment is read and no config is filled from it
IdleEnv ==
    /\ env = <<>>
    /\ cfg = <<>>
    /\ updErr = "none"
    /\ called = FALSE
    /\ cfg0 = cfg

InitSpecPoll == InitPoll /\ IdleTesters /\ IdleEnv /\ IdleValidate /\ InitDefault
    /\ IdleProfile /\ IdleSSM

SpecPoll == InitSpecPoll /\ [][NextPoll]_vars

\* The goroutine keeps running, the API call returns, the consumer keeps
\* receiving; a select with several ready cases picks among them at random,
\* so a case that is ready again and again is taken.
FairPoll ==
    /\ WF_vars(Receive)
    /\ WF_vars(LoopCheck)
    /\ WF_vars(Describe)
    /\ WF_vars(Send)
    /\ WF_vars(Close)
    /\ SF_vars(SelectCtxDone)
    /\ SF_vars(SelectStopc)
    /\ WF_vars(InitialWaitCtxDone \/ InitialWaitStopc \/ InitialWaitTimer)

InitSpecPollFair == InitPollFair /\ IdleTesters /\ IdleEnv /\ IdleValidate /\ InitDefault
    /\ IdleProfile /\ IdleSSM

SpecPollFair == InitSpecPollFair /\ [][NextPoll]_vars /\ FairPoll

\* a Poll that is not started
IdlePoll ==
    /\ horizon = 0
    /\ desiredStatus = "ACTIVE"
    /\ wait = PollWait
    /\ initialWait = PollInitialWait
    /\ InitPollState

InitSpecTesters == InitTesters /\ IdlePoll /\ IdleEnv /\ IdleValidate /\ InitDefault
    /\ IdleProfile /\ IdleSSM

SpecTesters == InitSpecTesters /\ [][NextTesters]_vars

InitSpecEnv == InitEnv /\ IdlePoll /\ IdleTesters /\ IdleValidate /\ InitDefault
    /\ IdleProfile /\ IdleSSM

SpecEnv == InitSpecEnv /\ [][NextEnv]_vars

InitSpecValidate == InitValidate /\ IdlePoll /\ IdleTesters /\ IdleEnv /\ InitDefault
    /\ IdleProfile /\ IdleSSM

SpecValidate == InitSpecValidate /\ [][NextValidate]_vars

InitSpecDefault == InitDefault /\ IdlePoll /\ IdleTesters /\ IdleEnv /\ IdleValidate
    /\ IdleProfile /\ IdleSSM

SpecDefault == InitSpecDefault /\ [][NextDefault]_vars

InitSpecProfile == InitProfile /\ IdleTesters /\ IdleEnv /\ IdleValidate /\ InitDefault
    /\ IdleSSM

SpecProfile == InitSpecProfile /\ [][NextProfile]_vars

InitSpecSSM == InitSSM /\ IdlePoll /\ IdleTesters /\ IdleEnv /\ IdleValidate
    /\ InitDefault /\ IdleProfile

SpecSSM == InitSpecSSM /\ [][NextSSM]_vars

(***************************************************************************)
(* Claims about Poll.                                                      *)
(***************************************************************************)

\* the last describe returned a profile whose status is the desired one
MatchedResp == lastResp.err = NilErr /\ lastResp.profile = desiredStatus

C1_State ==
    MatchedResp =>
        /\ pc \in {"send", "close", "done"}
        /\ pc = "send" => pending = Item(lastResp.profile, NilErr) /\ next = "close"
        /\ pc \in {"close", "done"} => lastSent = Item(lastResp.profile, NilErr)
        /\ pc = "done" => closed /\ closes = 1

C1_Step ==
    MatchedResp =>
        /\ ndesc' = ndesc
        /\ pc # "send" => lastSent' = lastSent /\ Len(ch') <= Len(ch)

\* C1: once a describe call returns a profile whose status equals
\* desiredStatus, Poll sends exactly one item, carrying that profile with a
\* nil Error, closes the channel, and issues no further describe call.
C1_DesiredStatusEndsPoll ==
    /\ []C1_State
    /\ [][C1_Step]_vars
    /\ (MatchedResp ~> (closed /\ lastSent = Item(desiredStatus, NilErr)))

C1_Witness ==
    /\ MatchedResp
    /\ ndesc > 1
    /\ closed
    /\ lastSent = Item(desiredStatus, NilErr)

\* C2: the channel is closed at most once, nothing is sent after the close,
\* and the last item sent before the close has a nil Error only if a describe
\* observed the desired state (status = desiredStatus, or not-found while
\* DELETED/NOT-EXIST is desired).
C2_ChannelDiscipline ==
    /\ closes <= 1
    /\ ~sentAfterClose
    /\ closed /\ lastSent.Error = NilErr => desiredSeen

C2_Witness ==
    /\ closed
    /\ lastSent.Error = NilErr
    /\ IsProfileDeleted(lastResp.err)
    /\ desiredStatus = FargateProfileStatusDELETEDORNOTEXIST
    /\ ndesc > 1

\* ctx is cancelled or expired, or stopc is closed
Aborted == ctxErr # "nil" \/ stopped

\* the errors Poll reports for the abort
AbortErrors ==
    (IF ctxErr # "nil" THEN {CtxError(ctxErr)} ELSE {})
    \cup (IF stopped THEN {StopError} ELSE {})

\* the last response ends the poll by itself
TerminalResp ==
    \/ DesiredObserved(desiredStatus, lastResp)
    \/ lastResp.err # NilErr /\ (lastResp.err.code = "ResourceNotFoundException" \/ lastResp.err.nf)
    \/ lastResp.err = NilErr /\ lastResp.profile \in {"CREATE_FAILED", "DELETE_FAILED"}

\* C3: if ctx is cancelled or expires, or stopc is closed, and the consumer
\* keeps receiving, Poll eventually closes the channel, the last item sent
\* carrying ctx.Err() or "wait stopped", unless the channel was closed on a
\* terminal describe response.
C3_AbortTerminates ==
    Aborted ~> (closed /\ (lastSent.Error \in AbortErrors \/ TerminalResp))

C3_Witness ==
    /\ closed
    /\ stopped
    /\ ctxErr = "nil"
    /\ lastSent = Item("nil", StopError)
    /\ ndesc > 1
    /\ ~TerminalResp

\* a not-found error, as the claim words it
NotFoundErr(e) == e # NilErr /\ (e.code = "ResourceNotFoundException" \/ e.nf)

C4_Describe ==
    pc = "describe" /\ pc' # pc =>
        LET r == lastResp' IN
        /\ (r.err # NilErr /\ ~NotFoundErr(r.err)) \/ (r.err = NilErr /\ r.profile = "nil")
             => pending'.Error # NilErr /\ next' # "close"
        /\ NotFoundErr(r.err)
             => /\ next' = "close"
                /\ pending'.Error = IF desiredStatus = FargateProfileStatusDELETEDORNOTEXIST
                                      THEN NilErr ELSE r.err
        /\ r.err = NilErr /\ r.profile \in {"CREATE_FAILED", "DELETE_FAILED"} \ {desiredStatus}
             => pending'.Error # NilErr /\ next' = "close"
        /\ r.err = NilErr /\ r.profile \in ProfileStatuses \ {"CREATE_FAILED", "DELETE_FAILED", desiredStatus}
             => pending' = Item(r.profile, NilErr) /\ next' # "close"

C4_Send ==
    pc = "send" /\ pc' # pc =>
        /\ lastSent' = pending
        /\ next = "close" => pc' = "close"
        /\ next # "close" => pc' \in {"loop", "initialWait"} /\ ~closed'

C4_Close == pc = "close" /\ pc' # pc => closed' /\ pc' = "done"

\* C4: a describe error that is no not-found error, or a nil profile, makes
\* Poll send an error item and keep polling; a not-found error closes the
\* channel, with a nil Error when DELETED/NOT-EXIST is desired and with that
\* error otherwise; CREATE_FAILED or DELETE_FAILED, when not desired, closes the
\* channel with a non-nil Error; any other status is sent with a nil Error and
\* polling continues.
C4_ErrorClassification == [][C4_Describe /\ C4_Send /\ C4_Close]_vars

C4_Witness ==
    /\ pc = "select"
    /\ ndesc > 1
    /\ lastResp.err # NilErr
    /\ ~NotFoundErr(lastResp.err)
    /\ lastSent = Item("nil", lastResp.err)
    /\ ~closed

C5_State ==
    /\ waitDur \in {0, wait}
    /\ pc = "describe" => lastWait = (IF ndesc = 0 THEN 0 ELSE wait)
    /\ initialSleeps = (IF nonTerm = 0 \/ (nonTerm = 1 /\ pc = "send" /\ next = "first")
                          THEN 0 ELSE 1)
    /\ ~first => sleptFor = initialWait

C5_Step ==
    pc' = "initialWait" /\ pc # "initialWait" =>
        /\ pc = "send"
        /\ nonTerm = 1
        /\ NonTerminal(desiredStatus, lastResp)
        /\ lastSent' = Item(lastResp.profile, NilErr)

\* C5: the first describe call is issued without waiting; every later describe
\* call follows a wait of the fixed interval `wait`; the initialWait sleep
\* happens once, right after the first describe that returned a non-terminal
\* status.
C5_TimingOrder == []C5_State /\ [][C5_Step]_vars

C5_Witness ==
    /\ pc = "describe"
    /\ ndesc > 1
    /\ wait > 0
    /\ lastWait = wait
    /\ ~first
    /\ initialSleeps = 1


(***************************************************************************)
(* Claims about the testers.                                               *)
(***************************************************************************)

\* C6: for both testers, Create called while Created is true, and Delete
\* called while Created is false, invoke no Kubernetes or AWS step and return
\* nil.
C6_SkippedCallsDoNothing ==
    (lastOp = "create" /\ createdBefore) \/ (lastOp = "delete" /\ ~createdBefore)
        => /\ op = "idle"
           /\ calls = <<>>
           /\ ret = RetNil
           /\ Created = createdBefore

C6_Witness ==
    /\ lastOp = "create"
    /\ createdBefore
    /\ ret = RetNil
    /\ calls = <<>>
    /\ ts = "alb"

IsPrefix(p, q) == Len(p) <= Len(q) /\ p = SubSeq(q, 1, Len(p))

\* the order of the creation steps as the claim lists it
C7_Order ==
    IF ts = "fargate"
      THEN <<"createNamespace", "createRole", "createSecret", "createProfile",
             "createPod", "checkPod", "checkNode">>
      ELSE <<"createNamespace", "createALBServiceAccount", "createALBRBACClusterRole",
             "createALBRBACClusterRoleBinding", "createALBDeployment",
             "waitDeploymentALB", "create2048Deployment", "waitDeployment2048",
             "create2048Service", "create2048Ingress">>

\* C7: Create runs its steps in the fixed order, each one only after the
\* previous one returned nil; when a step fails Create returns that step's
\* error and attempts no later step.
C7_CreateInOrder ==
    lastOp = "create" =>
        /\ IsPrefix(calls, C7_Order)
        /\ failed # {} =>
             /\ failed = {calls[Len(calls)]}
             /\ op = "idle"
             /\ ret = RetErr(<<calls[Len(calls)]>>)
        /\ op = "idle" /\ failed = {} /\ ~createdBefore => calls = C7_Order

C7_Witness ==
    /\ ts = "alb"
    /\ lastOp = "create"
    /\ op = "idle"
    /\ failed = {"create2048Deployment"}
    /\ Len(calls) = 7
    /\ ret = RetErr(<<"create2048Deployment">>)

\* C8: Fargate Delete clears Created and returns nil only if the pod, the
\* profile, the role, the secret and the namespace deletions all succeeded; if
\* one of them fails, Delete returns a non-nil error and Created stays true.
C8_FargateDeleteFaithful ==
    ts = "fargate" /\ lastOp = "delete" /\ createdBefore /\ op = "idle" =>
        /\ failed # {} => ret.kind = "err" /\ Created
        /\ ~Created /\ ret = RetNil => failed = {}

\* the order of ALB's deletion steps as the claim lists it
C9_Order ==
    <<"delete2048Ingress", "delete2048Service", "delete2048Deployment",
      "deleteALBDeployment", "deleteALBRBACClusterRoleBinding",
      "deleteALBRBACClusterRole", "deleteALBServiceAccount", "DeleteELBv2",
      "deleteNamespace">>

\* the text that names a failed step in the error Delete returns
C9_Message(f) ==
    LET d == CHOOSE x \in {DeleteSteps("alb")[i] : i \in 1..Len(DeleteSteps("alb"))} :
                 x.name = f
    IN d.msg

\* C9: ALB Delete attempts every deletion step in order even after a failure;
\* with a failed step it returns an error naming every failed step and leaves
\* Created true; it clears Created and returns nil only if all steps succeeded.
C9_ALBDeleteAttemptsAll ==
    ts = "alb" /\ lastOp = "delete" /\ createdBefore =>
        /\ IsPrefix(calls, C9_Order)
        /\ op = "idle" =>
             /\ calls = C9_Order
             /\ failed # {} =>
                  /\ ret.kind = "err"
                  /\ Created
                  /\ Len(ret.msgs) = Cardinality(failed)
                  /\ \A f \in failed : \E i \in 1..Len(ret.msgs) : ret.msgs[i] = C9_Message(f)
             /\ ~Created \/ ret = RetNil => failed = {}
             /\ failed = {} => ~Created

C9_Witness ==
    /\ ts = "alb"
    /\ lastOp = "delete"
    /\ createdBefore
    /\ op = "idle"
    /\ failed = {"delete2048Ingress", "deleteALBRBACClusterRole", "deleteNamespace"}
    /\ calls = C9_Order
    /\ Created

(***************************************************************************)
(* Claims about UpdateFromEnvs.                                            *)
(***************************************************************************)

\* the fields UpdateFromEnvs may write: a json tag and not read-only
Writable(i) == AllFields[i].json # <<>> /\ AllFields[i].ro # "true"

\* the value of the variable the documentation names for field i
DocValue(i) == Getenv(env, AllFields[i].doc)

\* the value parsed from a variable for a field of the kind, before it is
\* converted to the width of the field
ValueParsed(kind, sv) == IF kind = "int32" THEN ParseInt(sv) ELSE ParseField(kind, sv)

Unparsable(i) ==
    Writable(i) /\ DocValue(i) # <<>> /\ ~ParseField(AllFields[i].kind, DocValue(i)).ok

\* the first such field in the order UpdateFromEnvs parses, or one past the last
FirstUnparsable ==
    IF \E i \in 1..Len(AllFields) : Unparsable(i)
      THEN CHOOSE i \in 1..Len(AllFields) :
               Unparsable(i) /\ \A j \in 1..(i - 1) : ~Unparsable(j)
      ELSE Len(AllFields) + 1

ReadOnly(i) == AllFields[i].ro = "true"

\* the environment without the variables of the read-only fields
WithoutReadOnly(e) ==
    [n \in DOMAIN e |->
        IF \E i \in 1..Len(AllFields) : ReadOnly(i) /\ AllFields[i].doc = n
          THEN <<>> ELSE e[n]]

\* C11: after UpdateFromEnvs every read-only field holds the value it held
\* before, whatever its variable contains, and the variable causes no error:
\* the error is never that of a read-only field and is the one returned when
\* the variables of the read-only fields are unset.
C11_ReadOnlyUntouched ==
    called =>
        /\ \A i \in 1..Len(AllFields) :
              ReadOnly(i) =>
                  /\ cfg[AllFields[i].name] = cfg0[AllFields[i].name]
                  /\ updErr # AllFields[i].name
        /\ updErr = UpdateFrom(WithoutReadOnly(env), 1, cfg0).err

\* UpdateFromEnvs returned nil although the variable of a read-only field held
\* a value that does not parse for the type of the field
C11_Witness ==
    /\ called
    /\ updErr = "nil"
    /\ cfg0 = SetConfig
    /\ \E i \in 1..Len(AllFields) :
          /\ ReadOnly(i)
          /\ DocValue(i) # <<>>
          /\ ~ParseField(AllFields[i].kind, DocValue(i)).ok
    /\ \E i \in 1..Len(AllFields) :
          /\ ReadOnly(i)
          /\ AllFields[i].kind = "string"
          /\ DocValue(i) # <<>>
          /\ DocValue(i) # cfg0[AllFields[i].name]

(***************************************************************************)
(* Claims about ValidateAndSetDefaults.                                    *)
(***************************************************************************)

\* the kind of the field of the name
KindOf(f) ==
    CASE f \in {"Enable", "RoleCreate", "S3BucketCreate"} -> "bool"
      [] f \in {"S3BucketLifecycleExpirationDays", "DeploymentReplicas",
                "DeploymentReplicasALB", "DeploymentReplicas2048", "VolumeSize"} -> "int"
      [] f \in {"ASGMinSize", "ASGMaxSize", "ASGDesiredCapacity"} -> "int64"
      [] f = "VersionValue" -> "float"
      [] f = "AMIType" -> "string"
      [] f \in {"ASGs", "MNGs"} -> "map"
      [] f \in {"Parameters"} \cup NodeGroupAddOns \cup NodeAddOns -> "struct"
      [] OTHER -> "seq"

\* the value is the zero value of the kind
IsZero(kind, v) ==
    CASE kind = "bool" -> v = FALSE
      [] kind = "int" -> v = 0
      [] kind = "int64" -> v = Int64(0, 0)
      [] kind = "float" -> v = ZeroFloat
      [] kind = "string" -> v = ""
      [] OTHER -> v = <<>>

\* the field f of the struct held a non-zero value that the call changed
Changed(before, after, f) ==
    ~IsZero(KindOf(f), before[f]) /\ after[f] # before[f]

\* the same of a field of an entry of the map
ChangedInMap(before, after) ==
    \E k \in DOMAIN before :
        \/ k \notin DOMAIN after
        \/ \E g \in DOMAIN before[k] : Changed(before[k], after[k], g)

\* the fields of the config, as paths
FieldPaths ==
    {<<f>> : f \in {f \in DOMAIN config0 : KindOf(f) # "struct"}}
    \cup UNION {{<<f, g>> : g \in DOMAIN config0[f]} :
                    f \in {f \in DOMAIN config0 : KindOf(f) = "struct"}}

\* those that held a non-zero value and hold another one now
ChangedFields ==
    {p \in FieldPaths :
         IF Len(p) = 1 THEN Changed(config0, config, p[1])
         ELSE IF KindOf(p[2]) = "map"
                THEN ChangedInMap(config0[p[1]][p[2]], config[p[1]][p[2]])
                ELSE Changed(config0[p[1]], config[p[1]], p[2])}

RewrittenFields ==
    {<<"LogOutputs">>, <<"KubectlCommandsOutputPath">>, <<"S3BucketLifecycleExpirationDays">>,
     <<"Parameters", "VersionValue">>, <<"AddOnFargate", "SecretName">>,
     <<"AddOnNLBHelloWorld", "DeploymentReplicas">>,
     <<"AddOnALB2048", "DeploymentReplicasALB">>, <<"AddOnALB2048", "DeploymentReplicas2048">>}

C13_NewDefaultReturnsCopy ==
    [][/\ lastCall'.kind = "NewDefault" => DeepDefault' = DeepDefault
       /\ lastCall'.kind = "Modify" =>
            /\ DeepDefault' = DeepDefault
            /\ \A j \in 1..Len(returned) :
                 j # lastCall'.i => DeepReturned(j)' = DeepReturned(j)]_vars

\* C14: after ValidateAndSetDefaults returns nil, an enabled NLBHelloWorld,
\* ALB2048, JobPi, JobEcho, CronJob, Secrets, IRSA, Fargate or AppMesh add-on
\* comes with an enabled AddOnNodeGroups or AddOnManagedNodeGroups; a
\* configuration that enables one of them and neither node-group add-on gets
\* an error.
C14_AddOnsNeedNodeGroup ==
    validated =>
      /\ valErr = "nil" =>
           \A a \in NodeAddOns :
              config[a].Enable =>
                 config.AddOnNodeGroups.Enable \/ config.AddOnManagedNodeGroups.Enable
      /\ (/\ \E a \in NodeAddOns : config0[a].Enable
          /\ ~config0.AddOnNodeGroups.Enable
          /\ ~config0.AddOnManagedNodeGroups.Enable) => valErr # "nil"

C14_Witness ==
    /\ validated
    /\ valErr = "nil"
    /\ \A a \in NodeAddOns : config[a].Enable
    /\ config.AddOnManagedNodeGroups.Enable
    /\ ~config.AddOnNodeGroups.Enable

\* a <= b on the sizes
AtMost64(a, b) == a.hi < b.hi \/ (a.hi = b.hi /\ a.lo <= b.lo)

\* what C15 says of the map of an enabled node-group add-on, given the limits
\* on the number of its entries and on the size of one
GroupsWithin(m, most, limit) ==
    /\ Size(m) >= 1
    /\ Size(m) <= most
    /\ \A k \in DOMAIN m :
          /\ m[k].Name # <<>>
          /\ m[k].Name = k
          /\ Len(m[k].InstanceTypes) <= 4
          /\ AtMost64(m[k].ASGMinSize, m[k].ASGMaxSize)
          /\ AtMost64(m[k].ASGDesiredCapacity, m[k].ASGMaxSize)
          /\ AtMost64(m[k].ASGMaxSize, Int64(0, limit))

Capacities(c) ==
    (IF c.AddOnNodeGroups.Enable
       THEN {c.AddOnNodeGroups.ASGs[k].ASGDesiredCapacity : k \in DOMAIN c.AddOnNodeGroups.ASGs}
       ELSE {})
    \cup (IF c.AddOnManagedNodeGroups.Enable
            THEN {c.AddOnManagedNodeGroups.MNGs[k].ASGDesiredCapacity :
                      k \in DOMAIN c.AddOnManagedNodeGroups.MNGs}
            ELSE {})

\* the replica count n is at least every capacity
Covers(n, caps) == \A cap \in caps : AtMost64(cap, Int64(0, n))

\* C16: after ValidateAndSetDefaults returns nil, DeploymentReplicas of an
\* enabled AddOnNLBHelloWorld, and DeploymentReplicasALB and
\* DeploymentReplicas2048 of an enabled AddOnALB2048, are at least the
\* ASGDesiredCapacity of every ASG and MNG of the enabled node-group add-ons,
\* and a count that was at or above the capacities is unchanged.
C16_ReplicasCoverCapacity ==
    (validated /\ valErr = "nil") =>
      /\ config.AddOnNLBHelloWorld.Enable =>
           /\ Covers(config.AddOnNLBHelloWorld.DeploymentReplicas, Capacities(config))
           /\ Covers(config0.AddOnNLBHelloWorld.DeploymentReplicas, Capacities(config0)) =>
                 config.AddOnNLBHelloWorld.DeploymentReplicas
                     = config0.AddOnNLBHelloWorld.DeploymentReplicas
      /\ config.AddOnALB2048.Enable =>
           /\ Covers(config.AddOnALB2048.DeploymentReplicasALB, Capacities(config))
           /\ Covers(config.AddOnALB2048.DeploymentReplicas2048, Capacities(config))
           /\ Covers(config0.AddOnALB2048.DeploymentReplicasALB, Capacities(config0)) =>
                 config.AddOnALB2048.DeploymentReplicasALB
                     = config0.AddOnALB2048.DeploymentReplicasALB
           /\ Covers(config0.AddOnALB2048.DeploymentReplicas2048, Capacities(config0)) =>
                 config.AddOnALB2048.DeploymentReplicas2048
                     = config0.AddOnALB2048.DeploymentReplicas2048

\* the part of the string after its last '/'
AfterLastSlash(str) ==
    LET at == {i \in 1..Len(str) : str[i] = "/"}
    IN IF at = {} THEN str
       ELSE SubSeq(str, (CHOOSE i \in at : \A j \in at : j <= i) + 1, Len(str))

RoleSuffix(comp) ==
    CASE comp = "Parameters" -> <<"-", "r", "o", "l", "e", "-", "c", "l", "u", "s", "t", "e", "r">>
      [] comp = "AddOnNodeGroups" -> <<"-", "r", "o", "l", "e", "-", "n", "g">>
      [] comp = "AddOnManagedNodeGroups" -> <<"-", "r", "o", "l", "e", "-", "m", "n", "g">>
      [] comp = "AddOnFargate" -> <<"-", "r", "o", "l", "e", "-", "f", "a", "r", "g", "a", "t", "e">>

\* the role of the component is validated: Parameters, or an enabled add-on
HasRole(c, comp) == comp = "Parameters" \/ c[comp].Enable

\* C17: for Parameters and the enabled AddOnNodeGroups, AddOnManagedNodeGroups
\* and AddOnFargate: with RoleCreate false the call fails unless RoleARN is
\* non-empty and RoleManagedPolicyARNs and RoleServicePrincipals are empty, and
\* a successful call sets an empty RoleName to the part of RoleARN after its
\* last '/'; with RoleCreate true a successful call sets an empty RoleName to
\* the cluster Name plus the suffix of the component, and a RoleARN is no
\* reason for an error.
C17_RoleSettings ==
    validated =>
      /\ \A comp \in RoleComponents :
           HasRole(config0, comp) =>
             /\ (/\ ~config0[comp].RoleCreate
                 /\ \/ config0[comp].RoleARN = <<>>
                    \/ config0[comp].RoleManagedPolicyARNs # <<>>
                    \/ config0[comp].RoleServicePrincipals # <<>>) => valErr # "nil"
             /\ (valErr = "nil" /\ config0[comp].RoleName = <<>>) =>
                    config[comp].RoleName =
                        IF config0[comp].RoleCreate
                          THEN config.Name \o RoleSuffix(comp)
                          ELSE AfterLastSlash(config0[comp].RoleARN)
      /\ (\A comp \in RoleComponents : config0[comp].RoleCreate) =>
             valErr \notin {"RoleCreate false; expect non-empty RoleARN",
                            "RoleCreate false; expect empty RoleManagedPolicyARNs",
                            "RoleCreate false; expect empty RoleServicePrincipals"}

\* an existing role of the Fargate add-on, named after its ARN
C17_Witness ==
    /\ validated
    /\ valErr = "nil"
    /\ config0.AddOnFargate.Enable
    /\ ~config0.AddOnFargate.RoleCreate
    /\ config0.AddOnFargate.RoleName = <<>>
    /\ config0.AddOnFargate.RoleARN = <<"a", "r", "n", ":", "a", "w", "s", ":", "i", "a", "m", ":", ":", "1", "2", "3", ":", "r", "o", "l", "e", "/", "r", "o", "l", "e", "-", "e", "k", "s">>
    /\ config.AddOnFargate.RoleName = <<"r", "o", "l", "e", "-", "e", "k", "s">>

\* the number a string of decimal digits denotes
RECURSIVE Numeral(_, _)
Numeral(str, acc) ==
    IF str = <<>> THEN acc ELSE Numeral(Tail(str), acc * 10 + DigitVal(Head(str)))

\* the string is major.minor, both of them numerals
IsRelease(str) ==
    /\ Len(Split(str, ".")) = 2
    /\ \A i \in 1..2 :
          /\ Split(str, ".")[i] # <<>>
          /\ \A j \in 1..Len(Split(str, ".")[i]) : Split(str, ".")[i][j] \in Digits

Major(str) == Numeral(Split(str, ".")[1], 0)
Minor(str) == Numeral(Split(str, ".")[2], 0)

\* the release is older than 1.14 in major.minor order
OlderRelease(str) == Major(str) < 1 \/ (Major(str) = 1 /\ Minor(str) < 14)

VersionErrors ==
    {"Version not supported for AddOnNodeGroups",
     "Version not supported for AddOnManagedNodeGroups",
     "Version not supported for AddOnIRSA", "Version not supported for AddOnFargate"}

\* C18: with AddOnNodeGroups, AddOnManagedNodeGroups, AddOnIRSA or AddOnFargate
\* enabled, ValidateAndSetDefaults returns an error for every Parameters.Version
\* that is a release older than 1.14 in major.minor order, and no error about
\* the version for a release at or after 1.14.
C18_OldVersionsRejected ==
    (/\ validated
     /\ IsRelease(config0.Parameters.Version)
     /\ \E a \in {"AddOnNodeGroups", "AddOnManagedNodeGroups", "AddOnIRSA", "AddOnFargate"} :
           config0[a].Enable) =>
        IF OlderRelease(config0.Parameters.Version)
          THEN valErr # "nil"
          ELSE valErr \notin VersionErrors

\* ---- Claims about Create and Delete after a failure

\* C19: for both testers Created is true from the first creation step on and
\* stays true when Create fails, and a Delete that runs after a failed Create
\* calls the deletion step of every resource that Create had created, the
\* namespace among them.
C19_CleanupAfterFailedCreate ==
    /\ lastOp = "create" => Created
    /\ (lastOp = "delete" /\ op = "idle" /\ createdBefore /\ createFailed) =>
          \A r \in made : \E i \in 1..Len(calls) : Deletes(calls[i]) = r

\* C20: a Create call returns nil only if every creation step has succeeded
\* since the last Delete that ran to its end.
C20_NilMeansCreated ==
    (lastOp = "create" /\ op = "idle" /\ ret = RetNil) => stepsDone

(***************************************************************************)
(* Claims about createProfile.                                             *)
(***************************************************************************)

\* an error of a describe call that Poll reports and retries
Retryable(e) == e.src = "api" /\ ~IsProfileDeleted(e)

\* C21: createProfile waits through retryable failures: when a describe call
\* has returned the profile with status ACTIVE before createProfile returns,
\* the context has not timed out and stop is not signalled, createProfile
\* returns nil (or the error of the final Sync), also when an earlier describe
\* call failed with an error that is no not-found error.
C21_WaitsThroughRetryableFailures ==
    (/\ profPc = "done"
     /\ activeBefore
     /\ ~stopped
     /\ ctxErr # "context deadline exceeded") => profRet \in {NilErr, SyncError}

\* createProfile returns the retried error although the profile is ACTIVE
C21_ReturnsRetriedError ==
    /\ profPc = "done"
    /\ activeBefore
    /\ ~stopped
    /\ ctxErr # "context deadline exceeded"
    /\ Retryable(profRet)

(***************************************************************************)
(* Claims about createSSM.                                                 *)
(***************************************************************************)

\* the ASGs a SendCommand was issued for
SentTo == {sent[i] : i \in 1..Len(sent)}

\* C22: a SendCommand is issued only when the SSM-document stack of every ASG
\* with SSMDocumentCreate has reached CREATE_COMPLETE; when a document
\* creation has failed no command is sent to any ASG; no command is sent for
\* an ASG with an empty SSMDocumentName; with an ASG that has a document and
\* no instance createSSM returns an error; and an ASG has a command id only
\* if the answer to its command named the document the command asked for.
C22_SSMOrdering ==
    /\ sent # <<>> =>
          \A a \in DOMAIN ASGs :
              ASGs[a].SSMDocumentCreate => stacks[a] = "CREATE_COMPLETE"
    /\ (docErr \/ \E a \in DOMAIN stacks : stacks[a] = "CREATE_FAILED") => sent = <<>>
    /\ \A a \in SentTo : ASGs[a].SSMDocumentName # "" /\ requested[a] # ""
    /\ ssmPc = "done" =>
          \A a \in DOMAIN ASGs :
              (ASGs[a].SSMDocumentName # "" /\ ASGs[a].Instances = {}) =>
                  ssmRet \notin {"none", "nil"}
    /\ \A a \in DOMAIN ASGs :
          ASGs[a].SSMDocumentCommandID # "" =>
              /\ a \in DOMAIN answered
              /\ answered[a] = requested[a]
              /\ requested[a] = ASGs[a].SSMDocumentName

\* createSSM has returned nil: one ASG had its document created, was sent the
\* command after an item with an error had been received on the way, and has
\* its command id; another, without a document name, was passed over
C22_Witness ==
    /\ ssmPc = "done"
    /\ ssmRet = "nil"
    /\ \E a, b \in DOMAIN ASGs :
         /\ ASGs[a].SSMDocumentCreate
         /\ stacks[a] = "CREATE_COMPLETE"
         /\ ASGs[a].SSMDocumentName = "generated"
         /\ ASGs[a].SSMDocumentCommandID # ""
         /\ ASGs[b].SSMDocumentName = ""
         /\ b \notin SentTo
    /\ items > 0

============================================================================
